---- MODULE Spec2Model ----
(***************************************************************************)
(* A model of the attention pool (engine/models/attention_state.py), the   *)
(* manual allocation entry point (engine/processors/attention_engine.py)   *)
(* and the cognitive cycle controller (engine/engine.py).                  *)
(*                                                                         *)
(* Python floats are modelled as exact rationals <<n, d>> with d > 0 in    *)
(* lowest terms, so every equality below is an equality of real numbers    *)
(* and no claim is refuted by binary rounding alone.                       *)
(***************************************************************************)
EXTENDS Integers, Sequences, FiniteSets, TLC

\* ------------------------------------------------------------------ bounds
MaxConcurrent == 2      \* max_concurrent_focuses given to the constructor
MaxFocuses == MaxConcurrent + 1   \* focuses created in one behaviour: enough to evict once
MaxClock == 1           \* clock ticks in one behaviour
MaxOps == 3             \* pool operations in one behaviour
MaxCalls == 2           \* process_thought calls in one behaviour
MaxEmotionalMemories == 2                \* stands for max_emotional_memories
MaxEmotionOps == 3                       \* calls made on one EmotionalEngine
MaxDays == 1                             \* days the clock of the emotional engine runs
MaxEmotionDenominator == 10000000        \* largest denominator of an emotional state
MaxMaxCycles == 3       \* largest max_cycles argument of process_thought
MaxTotalCycles == 3     \* cycles requested by all process_thought calls of one behaviour
MaxAttentionCycles == 1  \* the same, for an engine built with enable_attention=True
MaxInsights == 2         \* insights a direct caller adds to a WorkingMemory

\* ------------------------------------------------------- exact arithmetic
Abs(x) == IF x < 0 THEN -x ELSE x

RECURSIVE GCD(_, _)
GCD(a, b) == IF b = 0 THEN a ELSE GCD(b, a % b)

\* the rational n/d (d # 0) in lowest terms with a positive denominator
Q(n, d) ==
    LET s == IF d < 0 THEN -1 ELSE 1
        g == GCD(Abs(n), Abs(d))
    IN  <<(s * n) \div g, (s * d) \div g>>

\* the operations reduce by common factors first, to keep the products small
RAdd(a, b) ==
    LET g == GCD(a[2], b[2])
    IN  Q(a[1] * (b[2] \div g) + b[1] * (a[2] \div g), (a[2] \div g) * b[2])
RSub(a, b) == RAdd(a, <<-b[1], b[2]>>)
RMul(a, b) ==
    LET g1 == GCD(Abs(a[1]), b[2])
        g2 == GCD(Abs(b[1]), a[2])
    IN  Q((a[1] \div g1) * (b[1] \div g2), (a[2] \div g2) * (b[2] \div g1))
RDiv(a, b) == RMul(a, IF b[1] < 0 THEN <<-b[2], -b[1]>> ELSE <<b[2], b[1]>>)
RLeq(a, b) ==
    LET g == GCD(a[2], b[2])
    IN  a[1] * (b[2] \div g) <= b[1] * (a[2] \div g)
RLt(a, b) == ~RLeq(b, a)
RMax(a, b) == IF RLeq(a, b) THEN b ELSE a
RMin(a, b) == IF RLeq(a, b) THEN a ELSE b
Zero == <<0, 1>>
One == <<1, 1>>

RECURSIVE RSum(_)
RSum(s) == IF s = <<>> THEN Zero ELSE RAdd(Head(s), RSum(Tail(s)))

\* ------------------------------------------------- configuration of a pool
total_attention_capacity == One          \* AttentionState default 1.0
attention_threshold == <<1, 10>>         \* AttentionState default 0.1
DefaultMaxConcurrent == 5                \* AttentionEngine default max_concurrent_focuses
FixtureMaxConcurrent == 3                \* max_concurrent_focuses of the engine the tests build
TickSeconds == 1800                      \* wall-clock seconds in one clock tick
ExpiryDefault == 300                     \* default max_duration of is_expired / cleanup

\* --------------------------------------------------------------- inputs
\* weight arguments: below range, at the threshold, inside, the upper end, above range
Weights == {<<-1, 2>>, <<1, 10>>, <<1, 2>>, <<1, 1>>, <<3, 2>>}
\* the AttentionType enumeration, in its order of definition
AttentionType == <<"memory_search", "insight_generation", "emotional_processing",
                   "response_generation", "meta_cognition">>
AttentionPriority == {"critical", "high", "medium", "low", "minimal"}
Types == {"memory_search"}               \* attention types the callers pass
Priorities == {"minimal", "critical"}    \* priorities the callers pass
DurationSteps == {350}                   \* seconds passed to increase_duration
\* the allocate_attention calls: every type, weight and priority above, and one
\* call whose attention_type is no member of the enumeration
AllocationRequests ==
    {<<t, w, p>> : t \in Types, w \in Weights, p \in Priorities}
        \cup {<<"not_a_type", <<1, 2>>, "minimal">>}

VARIABLES
    current_focuses,          \* AttentionState.current_focuses
    attention_history,        \* AttentionState.attention_history
    current_attention_usage,  \* AttentionState.current_attention_usage
    now,                      \* datetime.now(), in ticks of TickSeconds
    next_id,                  \* the next fresh focus_id (uuid4 is unique)
    ops,                      \* pool operations performed so far
    last_call,                \* the last operation, its arguments and its result
    current_strategy,         \* AttentionEngine.current_strategy
    processing_start_time,    \* AttentionEngine.processing_start_time, in ticks
    attention_enabled,        \* MetacognitiveEngine.attention_enabled
    max_concurrent_focuses,   \* AttentionState.max_concurrent_focuses
    working_memory,           \* MetacognitiveEngine.working_memory
    llm,                      \* GEMINI_API_KEY is set: the processors hold a model
    pc,                       \* where process_thought stands
    max_cycles,               \* its max_cycles argument
    cycle,                    \* cycles of the loop completed in this call
    save_index,               \* position of _save_insights_to_ltm in generated_insights
    ltm_log,                  \* every entry passed to LongTermMemory.add_memory, in order
    next_entry,               \* the next fresh Entry id
    calls,                    \* process_thought calls started
    cycles_requested,         \* the sum of their max_cycles arguments
    outcome,                  \* how the last call ended, and what it returned
    events,                   \* what the current call has done so far, in order
    current_session,          \* session engine: current_session, <<>> for None
    session_history,          \* session engine: session_history
    cognitive_state,            \* session engine: cognitive_state
    monitoring_task,          \* session engine: _monitoring_task is a live task
    enable_real_time,         \* session engine: enable_real_time
    next_session_id,          \* the next fresh session id (uuid4 is unique)
    session_call,             \* the last session operation and whether it raised
    current_emotional_state,  \* emotional engine: current_emotional_state
    emotional_memories,       \* emotional engine: emotional_memories
    emotional_history,        \* emotional engine: emotional_history
    today,                    \* emotional engine: datetime.now(), in whole days
    emotion_ops,              \* calls made on the emotional engine
    memories_created,         \* EmotionalMemory objects built so far (object identity)
    emotion_call,             \* the last call on the emotional engine
    stream_pc,                \* where the stream_thoughts generator stands
    last_step_count,          \* its local last_step_count
    stream_session            \* id of the session it was polling when it went to sleep

thought_vars == <<working_memory, llm, pc, max_cycles, cycle, save_index, ltm_log,
                  next_entry, calls, cycles_requested, outcome, events>>

pool_vars == <<current_focuses, attention_history, current_attention_usage,
               now, next_id, ops, last_call>>
engine_vars == <<current_strategy, processing_start_time, attention_enabled,
                 max_concurrent_focuses>>
session_vars == <<current_session, session_history, cognitive_state, monitoring_task,
                  enable_real_time, next_session_id, session_call>>
emotion_vars == <<current_emotional_state, emotional_memories, emotional_history,
                  today, emotion_ops, memories_created, emotion_call>>
stream_vars == <<stream_pc, last_step_count, stream_session>>

\* ------------------------------------------------------ AttentionFocus
\* AttentionFocus(...): the dataclass stores the weight it is given
AttentionFocus(id, t, w, p) ==
    [focus_id |-> id, attention_type |-> t, weight |-> w, priority |-> p,
     duration |-> 0, last_updated |-> now]

\* AttentionFocus.update_weight: clamp to [0,1], touch last_updated
update_weight(f, new_weight) ==
    [f EXCEPT !.weight = RMax(Zero, RMin(One, new_weight)), !.last_updated = now]

\* AttentionFocus.increase_duration
increase_duration(f, seconds) ==
    [f EXCEPT !.duration = @ + seconds, !.last_updated = now]

\* AttentionFocus.is_expired
is_expired(f, max_duration) == f.duration > max_duration

priority_weights(p) ==
    CASE p = "critical" -> <<1, 1>>
      [] p = "high" -> <<4, 5>>
      [] p = "medium" -> <<3, 5>>
      [] p = "low" -> <<2, 5>>
      [] p = "minimal" -> <<1, 5>>

\* AttentionFocus.get_relevance_score, evaluated at time `now`
get_relevance_score(f) ==
    LET time_diff == (now - f.last_updated) * TickSeconds
        time_factor == RMax(<<1, 10>>, RSub(One, Q(time_diff, 3600)))
        relevance == RAdd(RAdd(RMul(f.weight, <<2, 5>>),
                               RMul(priority_weights(f.priority), <<2, 5>>)),
                          RMul(time_factor, <<1, 5>>))
    IN  RMin(One, relevance)

\* ------------------------------------------------------ AttentionState
Weights_of(fs) == [i \in 1..Len(fs) |-> fs[i].weight]

RemoveAt(s, i) == SubSeq(s, 1, i - 1) \o SubSeq(s, i + 1, Len(s))

\* index of the first focus with this id, 0 when there is none
IndexOf(fs, id) ==
    IF \E i \in 1..Len(fs) : fs[i].focus_id = id
    THEN CHOOSE i \in 1..Len(fs) :
            /\ fs[i].focus_id = id
            /\ \A j \in 1..(i - 1) : fs[j].focus_id # id
    ELSE 0

\* a pool value: the three fields the operations rewrite
Pool(fs, hist, usage) == [focuses |-> fs, history |-> hist, usage |-> usage]
\* the pool an add_focus result leaves behind
PoolOf(r) == Pool(r.focuses, r.history, r.usage)
ThePool == Pool(current_focuses, attention_history, current_attention_usage)

\* remove_focus that drops the focus without recording it in the history
remove_focus_forget(pool, id) ==
    LET i == IndexOf(pool.focuses, id)
    IN  IF i = 0 THEN pool
        ELSE Pool(RemoveAt(pool.focuses, i), pool.history,
                  RSub(pool.usage, pool.focuses[i].weight))

\* AttentionState.remove_focus on a pool value
remove_focus(pool, id) ==
    LET i == IndexOf(pool.focuses, id)
    IN  IF i = 0 THEN pool
        ELSE Pool(RemoveAt(pool.focuses, i),
                  Append(pool.history, pool.focuses[i]),
                  RSub(pool.usage, pool.focuses[i].weight))

priority_order(p) ==
    CASE p = "minimal" -> 0
      [] p = "low" -> 1
      [] p = "medium" -> 2
      [] p = "high" -> 3
      [] p = "critical" -> 4

\* the key of _remove_lowest_priority_focus: (priority_order, relevance), compared as tuples
KeyLt(f, g) ==
    \/ priority_order(f.priority) < priority_order(g.priority)
    \/ /\ priority_order(f.priority) = priority_order(g.priority)
       /\ RLt(get_relevance_score(f), get_relevance_score(g))

\* eviction of the oldest focus instead of the lowest one
lowest_index_oldest(fs) == 1

\* Python's min(): the first element no other element is strictly below
lowest_index(fs) ==
    CHOOSE i \in 1..Len(fs) :
        /\ \A j \in 1..Len(fs) : ~KeyLt(fs[j], fs[i])
        /\ \A j \in 1..(i - 1) : KeyLt(fs[i], fs[j])

\* AttentionState._remove_lowest_priority_focus
remove_lowest_priority_focus(pool) ==
    IF pool.focuses = <<>> THEN pool
    ELSE remove_focus(pool, pool.focuses[lowest_index(pool.focuses)].focus_id)

reducible_weight(f) == RMax(Zero, RSub(f.weight, attention_threshold))

\* _rebalance_attention's loop without the floor at attention_threshold
RECURSIVE rebalance_loop_no_floor(_, _, _, _, _)
rebalance_loop_no_floor(fs, usage, i, reduction_needed, total_reducible_weight) ==
    IF i > Len(fs) THEN [focuses |-> fs, usage |-> usage]
    ELSE LET focus == fs[i]
             r == reducible_weight(focus)
         IN  IF RLt(Zero, r)
             THEN LET reduction_ratio == RDiv(r, total_reducible_weight)
                      weight_reduction == RMul(reduction_needed, reduction_ratio)
                      new_weight == RSub(focus.weight, weight_reduction)
                  IN  rebalance_loop_no_floor(
                          [fs EXCEPT ![i] = update_weight(focus, new_weight)],
                          RSub(usage, RSub(focus.weight, new_weight)),
                          i + 1, reduction_needed, total_reducible_weight)
             ELSE rebalance_loop_no_floor(fs, usage, i + 1, reduction_needed,
                                          total_reducible_weight)

\* the loop of _rebalance_attention when it leaves minimal-priority focuses alone
RECURSIVE rebalance_loop_spare_minimal(_, _, _, _, _)
rebalance_loop_spare_minimal(fs, usage, i, reduction_needed, total_reducible_weight) ==
    IF i > Len(fs) THEN [focuses |-> fs, usage |-> usage]
    ELSE LET focus == fs[i]
             r == reducible_weight(focus)
         IN  IF RLt(Zero, r) /\ focus.priority # "minimal"
             THEN LET reduction_ratio == RDiv(r, total_reducible_weight)
                      weight_reduction == RMul(reduction_needed, reduction_ratio)
                      new_weight == RMax(attention_threshold,
                                         RSub(focus.weight, weight_reduction))
                  IN  rebalance_loop_spare_minimal(
                          [fs EXCEPT ![i] = update_weight(focus, new_weight)],
                          RSub(usage, RSub(focus.weight, new_weight)),
                          i + 1, reduction_needed, total_reducible_weight)
             ELSE rebalance_loop_spare_minimal(fs, usage, i + 1, reduction_needed,
                                               total_reducible_weight)

\* the loop of _rebalance_attention over focuses i..Len, usage threaded through
RECURSIVE rebalance_loop(_, _, _, _, _)
rebalance_loop(fs, usage, i, reduction_needed, total_reducible_weight) ==
    IF i > Len(fs) THEN [focuses |-> fs, usage |-> usage]
    ELSE LET focus == fs[i]
             r == reducible_weight(focus)
         IN  IF RLt(Zero, r)
             THEN LET reduction_ratio == RDiv(r, total_reducible_weight)
                      weight_reduction == RMul(reduction_needed, reduction_ratio)
                      new_weight == RMax(attention_threshold,
                                         RSub(focus.weight, weight_reduction))
                  IN  rebalance_loop([fs EXCEPT ![i] = update_weight(focus, new_weight)],
                                     RSub(usage, RSub(focus.weight, new_weight)),
                                     i + 1, reduction_needed, total_reducible_weight)
             ELSE rebalance_loop(fs, usage, i + 1, reduction_needed, total_reducible_weight)

\* AttentionState._rebalance_attention
rebalance_attention(pool, required_attention) ==
    IF pool.focuses = <<>> THEN pool
    ELSE LET available_capacity == RSub(total_attention_capacity, pool.usage)
             reduction_needed == RSub(required_attention, available_capacity)
             total_reducible_weight ==
                 RSum([i \in 1..Len(pool.focuses) |-> reducible_weight(pool.focuses[i])])
         IN  IF RLeq(reduction_needed, Zero) THEN pool
             ELSE IF RLeq(total_reducible_weight, Zero) THEN pool
             ELSE LET r == rebalance_loop(pool.focuses, pool.usage, 1,
                                          reduction_needed, total_reducible_weight)
                  IN  Pool(r.focuses, pool.history, r.usage)

\* add_focus with the room test written `>` instead of `>=`
add_focus_late_eviction(pool, focus) ==
    LET full == Len(pool.focuses) > max_concurrent_focuses
        p1 == IF full THEN remove_lowest_priority_focus(pool) ELSE pool
        over == RLt(total_attention_capacity, RAdd(p1.usage, focus.weight))
        p2 == IF over THEN rebalance_attention(p1, focus.weight) ELSE p1
    IN  [focuses |-> Append(p2.focuses, focus),
         history |-> p2.history,
         usage |-> RAdd(p2.usage, focus.weight),
         result |-> TRUE,
         evicted |-> full,
         rebalanced |-> over,
         reduced |-> Weights_of(p2.focuses) # Weights_of(p1.focuses)]

\* add_focus that appends the new focus before it rebalances
add_focus_rebalance_after(pool, focus) ==
    LET full == Len(pool.focuses) >= max_concurrent_focuses
        p1 == IF full THEN remove_lowest_priority_focus(pool) ELSE pool
        over == RLt(total_attention_capacity, RAdd(p1.usage, focus.weight))
        p1a == Pool(Append(p1.focuses, focus), p1.history, p1.usage)
        p2 == IF over THEN rebalance_attention(p1a, focus.weight) ELSE p1a
    IN  [focuses |-> p2.focuses,
         history |-> p2.history,
         usage |-> RAdd(p2.usage, focus.weight),
         result |-> TRUE,
         evicted |-> full,
         rebalanced |-> over,
         reduced |-> Weights_of(p2.focuses) # Weights_of(p1a.focuses)]

\* add_focus that inserts the new focus first and evicts from the pool that holds it
add_focus_evict_after(pool, focus) ==
    LET full == Len(pool.focuses) >= max_concurrent_focuses
        over == RLt(total_attention_capacity, RAdd(pool.usage, focus.weight))
        p1 == IF over THEN rebalance_attention(pool, focus.weight) ELSE pool
        p2 == Pool(Append(p1.focuses, focus), p1.history, RAdd(p1.usage, focus.weight))
        p3 == IF full THEN remove_lowest_priority_focus(p2) ELSE p2
    IN  [focuses |-> p3.focuses,
         history |-> p3.history,
         usage |-> p3.usage,
         result |-> TRUE,
         evicted |-> full,
         rebalanced |-> over,
         reduced |-> FALSE]

\* AttentionState.add_focus on a pool value.  The result carries the pool, the
\* return value, and which branches ran: `evicted` (the pool was full on entry),
\* `rebalanced` (the capacity test sent it to _rebalance_attention) and
\* `reduced` (rebalancing changed an existing focus).
add_focus(pool, focus) ==
    LET full == Len(pool.focuses) >= max_concurrent_focuses
        p1 == IF full THEN remove_lowest_priority_focus(pool) ELSE pool
        over == RLt(total_attention_capacity, RAdd(p1.usage, focus.weight))
        p2 == IF over THEN rebalance_attention(p1, focus.weight) ELSE p1
    IN  [focuses |-> Append(p2.focuses, focus),
         history |-> p2.history,
         usage |-> RAdd(p2.usage, focus.weight),
         result |-> TRUE,
         evicted |-> full,
         rebalanced |-> over,
         reduced |-> Weights_of(p2.focuses) # Weights_of(p1.focuses)]

\* AttentionState.update_focus_weight on a pool value
update_focus_weight(pool, id, new_weight) ==
    LET i == IndexOf(pool.focuses, id)
    IN  IF i = 0 THEN pool
        ELSE Pool([pool.focuses EXCEPT ![i] = update_weight(@, new_weight)],
                  pool.history,
                  RAdd(pool.usage, RSub(new_weight, pool.focuses[i].weight)))

\* AttentionState.cleanup_expired_focuses: the expired list is taken first
RECURSIVE remove_all(_, _)
remove_all(pool, ids) ==
    IF ids = <<>> THEN pool ELSE remove_all(remove_focus(pool, Head(ids)), Tail(ids))

expired_ids(fs, max_duration) ==
    LET F[i \in 0..Len(fs)] ==
            IF i = 0 THEN <<>>
            ELSE IF is_expired(fs[i], max_duration)
                 THEN Append(F[i - 1], fs[i].focus_id) ELSE F[i - 1]
    IN  F[Len(fs)]

cleanup_expired_focuses(pool, max_duration) ==
    remove_all(pool, expired_ids(pool.focuses, max_duration))

\* ---------------------------------------------------------------- actions
SetPool(pool) ==
    /\ current_focuses' = pool.focuses
    /\ attention_history' = pool.history
    /\ current_attention_usage' = pool.usage

\* the record of a call: its arguments, its return value and, for add_focus,
\* the branches it took
Call(op, id, w, result) ==
    [op |-> op, id |-> id, weight |-> w, result |-> result,
     evicted |-> FALSE, rebalanced |-> FALSE, reduced |-> FALSE, returned |-> 0]

PoolInit ==
    /\ current_focuses = <<>>
    /\ attention_history = <<>>
    /\ current_attention_usage = Zero
    /\ now = 0
    /\ next_id = 1
    /\ ops = 0
    /\ last_call = Call("init", 0, Zero, TRUE)
    /\ current_strategy = "balanced"
    /\ processing_start_time = 0

\* the members of the AttentionType enumeration
AttentionTypes == {AttentionType[i] : i \in 1..Len(AttentionType)}

\* what allocate_attention returns for a focus of type t that add_focus accepted:
\* the log line reads attention_type.value, which raises AttributeError for a
\* value that is no enumeration member; the except branch then returns None (0)
allocate_return(t, id, success) ==
    IF ~success THEN 0
    ELSE IF t \in AttentionTypes THEN id ELSE 0

\* AttentionEngine.allocate_attention: build the focus, add it, return its id
AllocateAttention(t, w, p) ==
    /\ ops < MaxOps
    /\ next_id <= MaxFocuses
    /\ \E r \in {add_focus(ThePool, AttentionFocus(next_id, t, w, p))} :
           /\ SetPool(r)
           /\ last_call' = [Call("add_focus", next_id, w, r.result) EXCEPT
                               !.evicted = r.evicted,
                               !.rebalanced = r.rebalanced,
                               !.reduced = r.reduced,
                               !.returned = allocate_return(t, next_id, r.result)]
    /\ next_id' = next_id + 1
    /\ ops' = ops + 1
    /\ UNCHANGED <<stream_vars, emotion_vars, session_vars, now, engine_vars, thought_vars>>

RemoveFocus(id) ==
    /\ ops < MaxOps
    /\ \E r \in {remove_focus(ThePool, id)} : SetPool(r)
    /\ ops' = ops + 1
    /\ last_call' = Call("remove_focus", id, Zero, IndexOf(current_focuses, id) # 0)
    /\ UNCHANGED <<stream_vars, emotion_vars, session_vars, now, next_id, engine_vars, thought_vars>>

UpdateFocusWeight(id, w) ==
    /\ ops < MaxOps
    /\ \E r \in {update_focus_weight(ThePool, id, w)} : SetPool(r)
    /\ ops' = ops + 1
    /\ last_call' = Call("update_focus_weight", id, w, IndexOf(current_focuses, id) # 0)
    /\ UNCHANGED <<stream_vars, emotion_vars, session_vars, now, next_id, engine_vars, thought_vars>>

CleanupExpiredFocuses ==
    /\ ops < MaxOps
    /\ \E r \in {cleanup_expired_focuses(ThePool, ExpiryDefault)} : SetPool(r)
    /\ ops' = ops + 1
    /\ last_call' = Call("cleanup_expired_focuses", 0, Zero,
                         expired_ids(current_focuses, ExpiryDefault) # <<>>)
    /\ UNCHANGED <<stream_vars, emotion_vars, session_vars, now, next_id, engine_vars, thought_vars>>

\* focus.increase_duration(seconds) on a focus held in the pool
IncreaseDuration(id, seconds) ==
    /\ ops < MaxOps
    /\ IndexOf(current_focuses, id) # 0
    /\ current_focuses[IndexOf(current_focuses, id)].duration = 0
    /\ current_focuses' = [current_focuses EXCEPT
                             ![IndexOf(current_focuses, id)] = increase_duration(@, seconds)]
    /\ ops' = ops + 1
    /\ last_call' = Call("increase_duration", id, Zero, TRUE)
    /\ UNCHANGED <<stream_vars, emotion_vars, session_vars, attention_history, current_attention_usage, now, next_id,
                   engine_vars, thought_vars>>

\* wall-clock time passes between two calls
Tick ==
    /\ now < MaxClock
    /\ now' = now + 1
    /\ last_call' = Call("tick", 0, Zero, TRUE)
    /\ UNCHANGED <<stream_vars, emotion_vars, session_vars, current_focuses, attention_history, current_attention_usage, next_id,
                   ops, engine_vars, thought_vars>>

\* the ids a caller can name: those of the focuses held, and one that names nothing
Ids == {current_focuses[i].focus_id : i \in 1..Len(current_focuses)} \cup {0}

PoolNext ==
    \/ \E q \in AllocationRequests : AllocateAttention(q[1], q[2], q[3])
    \/ \E id \in Ids : RemoveFocus(id)
    \/ \E id \in Ids, w \in Weights : UpdateFocusWeight(id, w)
    \/ CleanupExpiredFocuses
    \/ \E id \in Ids, s \in DurationSteps : IncreaseDuration(id, s)
    \/ Tick

\* ------------------------------------------------------- WorkingMemory
\* WorkingMemory(): nothing perceived, nothing retrieved, a fresh CognitiveState
EmptyWorkingMemory ==
    [structured_input |-> <<>>,
     retrieved_memories |-> 0,
     associations |-> <<>>,
     generated_insights |-> <<>>,
     context_data |-> {},
     cognitive_state |-> [cycle_count |-> 0, confidence_score |-> Zero, is_stable |-> FALSE]]

\* WorkingMemory.clear: every field back to its initial value
clear(wm) == EmptyWorkingMemory

\* WorkingMemory.set_input
set_input(wm, structured_input) == [wm EXCEPT !.structured_input = <<structured_input>>]

\* WorkingMemory.add_retrieved_memories: the list is added to the ones held (counted)
add_retrieved_memories(wm, n) == [wm EXCEPT !.retrieved_memories = @ + n]

\* WorkingMemory.add_associations (each association kept by its similarity)
add_associations(wm, sims) == [wm EXCEPT !.associations = @ \o sims]

\* WorkingMemory.add_insight
add_insight(wm, entry) == [wm EXCEPT !.generated_insights = Append(@, entry)]

\* WorkingMemory.update_cognitive_state(cycle_count=...)
update_cycle_count(wm, n) == [wm EXCEPT !.cognitive_state.cycle_count = n]

\* WorkingMemory.update_cognitive_state(confidence_score=...)
update_confidence_score(wm, c) == [wm EXCEPT !.cognitive_state.confidence_score = c]

\* WorkingMemory.update_cognitive_state(is_stable=...)
update_is_stable(wm, b) == [wm EXCEPT !.cognitive_state.is_stable = b]

\* WorkingMemory.set_context_data (the keys set are kept)
set_context_data(wm, key) == [wm EXCEPT !.context_data = @ \cup {key}]

\* WorkingMemory.is_ready_for_response
is_ready_for_response(wm) == wm.structured_input # <<>>

\* ------------------------------------------------------- collaborators
\* what SensoryCortex.analyze can return: entity count, intent, sentiment, confidence
PerceptionResults ==
    {[entities |-> 0, intent |-> "STATEMENT", sentiment |-> "NEUTRAL", confidence |-> <<1, 2>>],
     [entities |-> 2, intent |-> "QUESTION", sentiment |-> "POSITIVE", confidence |-> <<1, 1>>]}

\* what LongTermMemory.search_memories can return: the distances of up to top_n=3
\* memories, nearest first (cosine distance lies in [0,2], and every distance up
\* to max_distance = 5.0 is returned)
SearchResults == {<<>>, <<<<0, 1>>, <<1, 10>>>>, <<<<2, 1>>>>}

\* AssociativeEngine.process: [wm, success]
associative_process(wm, search) ==
    IF wm.structured_input = <<>> THEN [wm |-> wm, success |-> FALSE]
    ELSE IF search # <<>>
         THEN [wm |-> add_associations(
                          add_retrieved_memories(wm, Len(search)),
                          [i \in 1..Len(search) |-> RSub(One, search[i])]),
               success |-> TRUE]
         ELSE [wm |-> wm, success |-> FALSE]

\* IntrospectionEngine._simple_memory_analysis: does it yield an entry
simple_memory_analysis(wm) ==
    /\ wm.retrieved_memories > 0
    /\ wm.structured_input[1].intent \in {"QUESTION", "REFLECTION"}

\* IntrospectionEngine._assess_confidence
assess_confidence(wm) ==
    LET f1 == IF wm.structured_input # <<>>
              THEN <<wm.structured_input[1].confidence>> ELSE <<>>
        f2 == IF wm.associations # <<>>
              THEN <<RDiv(RSum(wm.associations), <<Len(wm.associations), 1>>)>> ELSE <<>>
        insight_count == Len(wm.generated_insights)
        f3 == <<RMin(One, RMul(<<insight_count, 1>>, <<3, 10>>))>>
        confidence_factors == f1 \o f2 \o f3
    IN  RDiv(RSum(confidence_factors), <<Len(confidence_factors), 1>>)

\* the answers introspection can get: `memory` says whether the analysis with
\* memories yields an entry, `paradox` whether _detect_paradoxes does
IntrospectionAnswers(wm) ==
    IF wm.structured_input = <<>> THEN {[memory |-> FALSE, paradox |-> FALSE]}
    ELSE {[memory |-> m, paradox |-> x] :
            m \in IF wm.retrieved_memories = 0 THEN {FALSE}
                  ELSE IF llm THEN BOOLEAN ELSE {simple_memory_analysis(wm)},
            x \in IF wm.retrieved_memories >= 2 THEN BOOLEAN ELSE {FALSE}}

\* IntrospectionEngine.process: [wm, success, entries], entries counting the new Entry ids
introspection_process(wm, answer, first_entry) ==
    IF wm.structured_input = <<>> THEN [wm |-> wm, success |-> FALSE, entries |-> 0]
    ELSE LET first == IF wm.retrieved_memories > 0 THEN answer.memory
                      ELSE TRUE   \* _generate_simple_insight always returns an Entry
             wm1 == IF first THEN add_insight(wm, first_entry) ELSE wm
             n1 == IF first THEN 1 ELSE 0
             wm2 == IF answer.paradox THEN add_insight(wm1, first_entry + n1) ELSE wm1
             insights_generated == n1 + (IF answer.paradox THEN 1 ELSE 0)
             wm3 == update_confidence_score(wm2, assess_confidence(wm2))
         IN  [wm |-> wm3, success |-> insights_generated > 0, entries |-> insights_generated]

\* generate_response without the try/except around the model call
generate_response_unguarded(wm, failed) ==
    IF ~is_ready_for_response(wm) THEN "need_more_information"
    ELSE IF ~llm THEN "simple_response"
    ELSE IF failed THEN "raised" ELSE "generated_response"

\* ResponseGenerator.generate_response: which of its three returns is taken
\* (`failed` says that the model call raised)
generate_response(wm, failed) ==
    IF ~is_ready_for_response(wm) THEN "need_more_information"
    ELSE IF ~llm THEN "simple_response"
    ELSE IF failed THEN "simple_response" ELSE "generated_response"

\* ------------------------------------------------------ AttentionEngine
RegisteredStrategies == {"balanced", "focused", "exploratory"}

\* AttentionEngine._analyze_attention_needs: the dict as a sequence of
\* <<type, need>> in insertion order
analyze_attention_needs(wm) ==
    LET n1 == IF wm.structured_input # <<>>
              THEN <<<<"memory_search",
                       RMin(<<4, 5>>, RAdd(<<3, 10>>,
                            RMul(<<wm.structured_input[1].entities, 1>>, <<1, 10>>)))>>>>
                   \o (IF wm.structured_input[1].sentiment \in
                            {"EMOTIONAL", "NEGATIVE", "POSITIVE"}
                       THEN <<<<"emotional_processing", <<2, 5>>>>>> ELSE <<>>)
              ELSE <<>>
        n2 == IF wm.retrieved_memories > 0
              THEN <<<<"insight_generation",
                       RMin(<<7, 10>>, RAdd(<<1, 5>>,
                            RMul(<<wm.retrieved_memories, 1>>, <<1, 10>>)))>>>>
              ELSE <<>>
        n3 == IF wm.generated_insights # <<>>
              THEN <<<<"response_generation",
                       RMin(<<4, 5>>, RAdd(<<2, 5>>,
                            RMul(<<Len(wm.generated_insights), 1>>, <<1, 10>>)))>>>>
              ELSE <<>>
    IN  n1 \o n2 \o n3 \o <<<<"meta_cognition", <<1, 5>>>>>>

NeedValues(needs) == [i \in 1..Len(needs) |-> needs[i][2]]

\* dict.get(attention_type, default)
need_of(needs, t, default) ==
    IF \E i \in 1..Len(needs) : needs[i][1] = t
    THEN needs[CHOOSE i \in 1..Len(needs) : needs[i][1] = t][2]
    ELSE default

\* max(attention_needs.items(), key=...): the first entry of largest need
primary_index(needs) ==
    CHOOSE i \in 1..Len(needs) :
        /\ \A j \in 1..Len(needs) : RLeq(needs[j][2], needs[i][2])
        /\ \A j \in 1..(i - 1) : RLt(needs[j][2], needs[i][2])

\* _balanced_attention_strategy: the allocations it requests, in order
balanced_attention_strategy(needs) ==
    LET total_needed == RSum(NeedValues(needs))
    IN  [i \in 1..Len(needs) |->
            [type |-> needs[i][1],
             weight |-> RMul(RMul(RDiv(needs[i][2], total_needed),
                                  total_attention_capacity), <<4, 5>>),
             priority |-> "medium"]]

\* _focused_attention_strategy: the allocations it requests, in order
focused_attention_strategy(needs) ==
    LET k == primary_index(needs)
        other_needs == SubSeq(needs, 1, k - 1) \o SubSeq(needs, k + 1, Len(needs))
        total_other == RSum(NeedValues(other_needs))
        remaining_capacity == RMul(total_attention_capacity, <<3, 10>>)
    IN  <<[type |-> needs[k][1],
           weight |-> RMul(total_attention_capacity, <<7, 10>>),
           priority |-> "high"]>>
        \o [i \in 1..Len(other_needs) |->
              [type |-> other_needs[i][1],
               weight |-> RMul(RDiv(other_needs[i][2], total_other), remaining_capacity),
               priority |-> "low"]]

\* _exploratory_attention_strategy: the allocations it requests, in order
exploratory_attention_strategy(needs) ==
    LET capacity_per_type == RDiv(total_attention_capacity, <<Len(AttentionType), 1>>)
    IN  [i \in 1..Len(AttentionType) |->
            [type |-> AttentionType[i],
             weight |-> RMin(capacity_per_type,
                             RAdd(need_of(needs, AttentionType[i], <<1, 10>>), <<1, 10>>)),
             priority |-> "medium"]]

\* the allocate_attention calls of a strategy, one after the other; focus ids from id on
RECURSIVE allocate_all(_, _, _)
allocate_all(pool, requests, id) ==
    IF requests = <<>> THEN pool
    ELSE LET q == Head(requests)
         \* each allocation is finished before the next one starts
         IN  CHOOSE r \in {allocate_all(p, Tail(requests), id + 1) :
                           p \in {PoolOf(add_focus(pool, AttentionFocus(id, q.type, q.weight,
                                                                       q.priority)))}} : TRUE

\* AttentionEngine._update_focus_durations
update_focus_durations(pool, cycle_duration) ==
    Pool([i \in 1..Len(pool.focuses) |-> increase_duration(pool.focuses[i], cycle_duration)],
         pool.history, pool.usage)

\* process that falls back to the balanced strategy for a name it does not know
attention_process_fallback(pool, wm, strategy) ==
    LET cycle_duration == (now - processing_start_time) * TickSeconds
        p1 == cleanup_expired_focuses(pool, ExpiryDefault)
        requests == balanced_attention_strategy(analyze_attention_needs(wm))
        p2 == allocate_all(p1, requests, next_id)
    IN  [pool |-> update_focus_durations(p2, cycle_duration),
         wm |-> set_context_data(wm, "attention_context"),
         result |-> TRUE, allocated |-> Len(requests)]

\* AttentionEngine.process: [pool, wm, result, allocated]
attention_process(pool, wm, strategy) ==
    LET cycle_duration == (now - processing_start_time) * TickSeconds
        p1 == cleanup_expired_focuses(pool, ExpiryDefault)
        needs == analyze_attention_needs(wm)
    IN  IF strategy \notin RegisteredStrategies
        THEN \* the lookup raises KeyError, which process catches
             [pool |-> p1, wm |-> wm, result |-> FALSE, allocated |-> 0]
        ELSE LET requests == CASE strategy = "balanced" -> balanced_attention_strategy(needs)
                               [] strategy = "focused" -> focused_attention_strategy(needs)
                               [] strategy = "exploratory" ->
                                      exploratory_attention_strategy(needs)
                 p2 == allocate_all(p1, requests, next_id)
                 p3 == update_focus_durations(p2, cycle_duration)
             IN  [pool |-> p3, wm |-> set_context_data(wm, "attention_context"),
                  result |-> TRUE, allocated |-> Len(requests)]

\* ------------------------------------------------- MetacognitiveEngine
\* _should_stabilize that stops as soon as either phase reports no progress
should_stabilize_either(wm, c, association_success, introspection_success) ==
    IF ~association_success \/ ~introspection_success THEN TRUE
    ELSE IF RLt(<<4, 5>>, wm.cognitive_state.confidence_score) THEN TRUE
    ELSE FALSE

\* MetacognitiveEngine._should_stabilize
should_stabilize(wm, c, association_success, introspection_success) ==
    IF ~association_success /\ ~introspection_success THEN TRUE
    ELSE IF RLt(<<4, 5>>, wm.cognitive_state.confidence_score) THEN TRUE
    ELSE FALSE

\* the end of a pass that breaks out of the loop without marking the state stable
end_of_cycle_no_flag(wm, c, association_success, introspection_success) ==
    IF should_stabilize(wm, c, association_success, introspection_success)
    THEN [wm |-> wm, break |-> TRUE]
    ELSE [wm |-> wm, break |-> FALSE]

\* the end of one pass of the loop of process_thought: [wm, break]
end_of_cycle(wm, c, association_success, introspection_success) ==
    IF should_stabilize(wm, c, association_success, introspection_success)
    THEN [wm |-> update_is_stable(wm, TRUE), break |-> TRUE]
    ELSE [wm |-> wm, break |-> FALSE]

\* the head of process_thought without the reset of the working memory
begin_thought_no_clear(wm, structured_input) == set_input(wm, structured_input)

\* the head of process_thought: reset the working memory, store the perception
begin_thought(wm, structured_input) == set_input(clear(wm), structured_input)

\* MetacognitiveEngine.__init__ with the default configuration
ThoughtIdle ==
    /\ working_memory = EmptyWorkingMemory
    /\ pc = "idle"
    /\ max_cycles = 0
    /\ cycle = 0
    /\ save_index = 1
    /\ ltm_log = <<>>
    /\ next_entry = 1
    /\ calls = 0
    /\ cycles_requested = 0
    /\ outcome = "none"
    /\ events = <<>>

\* MetacognitiveEngine.__init__: with or without a model key, with or without attention
ThoughtInit ==
    /\ ThoughtIdle
    /\ llm \in BOOLEAN
    /\ attention_enabled \in BOOLEAN

\* cycles the calls of one behaviour may request
CycleBudget == IF attention_enabled THEN MaxAttentionCycles ELSE MaxTotalCycles

\* process_thought is called: working memory reset, perception stored
ProcessThought(mc, structured_input) ==
    /\ pc = "idle"
    /\ calls < MaxCalls
    /\ cycles_requested + mc <= CycleBudget
    /\ calls' = calls + 1
    /\ cycles_requested' = cycles_requested + mc
    /\ working_memory' = begin_thought(working_memory, structured_input)
    /\ max_cycles' = mc
    /\ cycle' = 0
    /\ save_index' = 1
    /\ events' = <<>>
    /\ outcome' = "running"
    /\ pc' = IF mc > 0 THEN "cycling" ELSE "learning"
    /\ UNCHANGED <<stream_vars, emotion_vars, session_vars, llm, ltm_log, next_entry, pool_vars, engine_vars>>

\* process_thought is called and SensoryCortex.analyze raises
PerceptionRaises(mc) ==
    /\ pc = "idle"
    /\ calls < MaxCalls
    /\ cycles_requested + mc <= CycleBudget
    /\ calls' = calls + 1
    /\ cycles_requested' = cycles_requested + mc
    /\ working_memory' = clear(working_memory)
    /\ max_cycles' = mc
    /\ cycle' = 0
    /\ save_index' = 1
    /\ events' = <<>>
    /\ outcome' = "raised"
    /\ pc' = "idle"
    /\ UNCHANGED <<stream_vars, emotion_vars, session_vars, llm, ltm_log, next_entry, pool_vars, engine_vars>>

\* one pass of the loop: cycle count, attention, association, introspection,
\* stabilization test
Cycle(search, answer) ==
    /\ pc = "cycling"
    /\ \E att \in {IF attention_enabled
                   THEN attention_process(ThePool,
                            update_cycle_count(working_memory, cycle + 1), current_strategy)
                   ELSE [pool |-> ThePool,
                         wm |-> update_cycle_count(working_memory, cycle + 1),
                         result |-> FALSE, allocated |-> 0]} :
       \E a \in {associative_process(att.wm, search)} :
          /\ answer \in IntrospectionAnswers(a.wm)
          /\ SetPool(att.pool)
          /\ next_id' = next_id + att.allocated
          /\ processing_start_time' = IF attention_enabled THEN now
                                      ELSE processing_start_time
          /\ last_call' = IF attention_enabled
                          THEN Call("process", 0, Zero, att.result) ELSE last_call
          /\ \E i \in {introspection_process(a.wm, answer, next_entry)} :
             \E e \in {end_of_cycle(i.wm, cycle, a.success, i.success)} :
                /\ working_memory' = e.wm
                /\ next_entry' = next_entry + i.entries
                /\ events' = Append(events,
                               [kind |-> "cycle", association |-> a.success,
                                introspection |-> i.success,
                                confidence |-> i.wm.cognitive_state.confidence_score])
                /\ pc' = IF e.break \/ cycle + 1 >= max_cycles
                         THEN "learning" ELSE "cycling"
    /\ cycle' = cycle + 1
    /\ UNCHANGED <<stream_vars, emotion_vars, session_vars, llm, max_cycles, save_index, ltm_log, calls, cycles_requested, outcome,
                   now, ops,
                   current_strategy, attention_enabled, max_concurrent_focuses>>

\* _save_insights_to_ltm: the next insight goes to LongTermMemory.add_memory
SaveInsight ==
    /\ pc = "learning"
    /\ save_index <= Len(working_memory.generated_insights)
    /\ ltm_log' = Append(ltm_log, working_memory.generated_insights[save_index])
    /\ events' = Append(events, [kind |-> "store",
                                 entry |-> working_memory.generated_insights[save_index]])
    /\ save_index' = save_index + 1
    /\ UNCHANGED <<stream_vars, emotion_vars, session_vars, working_memory, llm, pc, max_cycles, cycle, next_entry, calls,
                   cycles_requested, outcome, pool_vars, engine_vars>>

\* _save_insights_to_ltm: LongTermMemory.add_memory raises, process_thought is left
StoreRaises ==
    /\ pc = "learning"
    /\ save_index <= Len(working_memory.generated_insights)
    /\ outcome' = "raised"
    /\ pc' = "idle"
    /\ UNCHANGED <<stream_vars, emotion_vars, session_vars, working_memory, llm, max_cycles, cycle, save_index, ltm_log,
                   next_entry, calls, cycles_requested, events, pool_vars, engine_vars>>

\* the insights are saved: generate the response and return it
Respond(failed) ==
    /\ pc = "learning"
    /\ save_index > Len(working_memory.generated_insights)
    /\ failed => llm /\ is_ready_for_response(working_memory)
    /\ outcome' = generate_response(working_memory, failed)
    /\ events' = Append(events, [kind |-> "respond"])
    /\ pc' = "idle"
    /\ UNCHANGED <<stream_vars, emotion_vars, session_vars, working_memory, llm, max_cycles, cycle, save_index, ltm_log,
                   next_entry, calls, cycles_requested, pool_vars, engine_vars>>

\* engine.attention_engine.current_strategy = name, between two calls
SetStrategy(name) ==
    /\ pc = "idle"
    /\ attention_enabled
    /\ calls = 0
    /\ current_strategy = "balanced"
    /\ name # current_strategy
    /\ current_strategy' = name
    /\ UNCHANGED <<stream_vars, emotion_vars, session_vars, pool_vars, processing_start_time, attention_enabled,
                   max_concurrent_focuses, thought_vars>>

Strategies == RegisteredStrategies \cup {"unregistered"}

\* wall-clock time passes between two process_thought calls
TimePasses ==
    /\ pc = "idle"
    /\ calls > 0
    /\ Tick

ThoughtNext ==
    \/ \E mc \in 0..MaxMaxCycles, si \in PerceptionResults : ProcessThought(mc, si)
    \/ \E mc \in 0..MaxMaxCycles : PerceptionRaises(mc)
    \/ \E search \in SearchResults, m \in BOOLEAN, x \in BOOLEAN :
          Cycle(search, [memory |-> m, paradox |-> x])
    \/ SaveInsight
    \/ StoreRaises
    \/ \E failed \in BOOLEAN : Respond(failed)
    \/ \E name \in Strategies : SetStrategy(name)
    \/ TimePasses

vars == <<pool_vars, engine_vars, thought_vars, session_vars, emotion_vars, stream_vars>>

\* =========================================================== EmotionalEngine
\* Text is a sequence of one-character strings, so that Python's `in`, split()
\* and count() on str are computed as Python computes them.
UpperLetters ==
    <<"A", "B", "C", "D", "E", "F", "G", "H", "I", "J", "K", "L", "M",
      "N", "O", "P", "Q", "R", "S", "T", "U", "V", "W", "X", "Y", "Z">>
LowerLetters ==
    <<"a", "b", "c", "d", "e", "f", "g", "h", "i", "j", "k", "l", "m",
      "n", "o", "p", "q", "r", "s", "t", "u", "v", "w", "x", "y", "z">>

\* str.lower()
lower(s) ==
    [i \in 1..Len(s) |->
        IF \E k \in 1..Len(UpperLetters) : UpperLetters[k] = s[i]
        THEN LowerLetters[CHOOSE k \in 1..Len(UpperLetters) : UpperLetters[k] = s[i]]
        ELSE s[i]]

\* `word in text` on str: word is a contiguous part of text
Contains(text, word) ==
    \E i \in 1..(Len(text) - Len(word) + 1) : SubSeq(text, i, i + Len(word) - 1) = word

\* str.split(): the maximal runs of non-blank characters, in order; the loop
\* from character i on, with the words finished and the word being read
RECURSIVE split_from(_, _, _, _)
split_from(s, i, done, word) ==
    IF i > Len(s) THEN (IF word = <<>> THEN done ELSE Append(done, word))
    ELSE IF s[i] = " "
         THEN split_from(s, i + 1, IF word = <<>> THEN done ELSE Append(done, word), <<>>)
         ELSE split_from(s, i + 1, done, Append(word, s[i]))
split(s) == split_from(s, 1, <<>>, <<>>)

\* str.count(c) for a single character
count(s, c) == Cardinality({i \in 1..Len(s) : s[i] = c})

\* the word lists of _pattern_emotional_analysis
positive_words ==
    <<<<"h", "a", "p", "p", "y">>,
      <<"j", "o", "y">>,
      <<"l", "o", "v", "e">>,
      <<"e", "x", "c", "e", "l", "l", "e", "n", "t">>,
      <<"g", "r", "e", "a", "t">>,
      <<"w", "o", "n", "d", "e", "r", "f", "u", "l">>,
      <<"a", "m", "a", "z", "i", "n", "g">>,
      <<"g", "o", "o", "d">>>>
negative_words ==
    <<<<"s", "a", "d">>,
      <<"a", "n", "g", "r", "y">>,
      <<"h", "a", "t", "e">>,
      <<"t", "e", "r", "r", "i", "b", "l", "e">>,
      <<"a", "w", "f", "u", "l">>,
      <<"b", "a", "d">>,
      <<"h", "o", "r", "r", "i", "b", "l", "e">>,
      <<"w", "o", "r", "r", "i", "e", "d">>>>
high_arousal_words ==
    <<<<"e", "x", "c", "i", "t", "e", "d">>,
      <<"t", "h", "r", "i", "l", "l", "e", "d">>,
      <<"a", "n", "g", "r", "y">>,
      <<"s", "c", "a", "r", "e", "d">>,
      <<"s", "u", "r", "p", "r", "i", "s", "e", "d">>>>

\* the raw texts of the inputs
TextGreatJoy == <<"g", "r", "e", "a", "t", " ", "j", "o", "y">>    \* "great joy"
TextEnjoyed == <<"e", "n", "j", "o", "y", "e", "d">>    \* "enjoyed"
TextAlarm == <<"e", "x", "c", "i", "t", "e", "d", " ", "t", "h", "r", "i", "l", "l", "e", "d", " ", "a", "n", "g", "r", "y", "!", "!", "!">>    \* "excited thrilled angry!!!"
TextPlain == <<"t", "e", "l", "l", " ", "m", "e">>    \* "tell me"
StrStatement == <<"S", "T", "A", "T", "E", "M", "E", "N", "T">>
StrQuestion == <<"Q", "U", "E", "S", "T", "I", "O", "N">>
StrPositive == <<"P", "O", "S", "I", "T", "I", "V", "E">>
StrNegative == <<"N", "E", "G", "A", "T", "I", "V", "E">>
StrNeutral == <<"N", "E", "U", "T", "R", "A", "L">>

\* the inputs process_emotional_input reads from working memory:
\* structured_input.raw_text, .intent and .sentiment; <<>> is no structured input
EmotionalInput(raw_text, intent, sentiment) ==
    [raw_text |-> raw_text, intent |-> intent, sentiment |-> sentiment]
EmotionalInputs ==
    {EmotionalInput(TextGreatJoy, StrStatement, StrPositive),
     EmotionalInput(TextEnjoyed, StrStatement, StrPositive),
     EmotionalInput(TextAlarm, StrStatement, StrNegative),
     EmotionalInput(TextPlain, StrQuestion, StrNeutral)}
\* the texts whose analysis is passed to update_emotional_state and
\* create_emotional_memory directly
EmotionalTexts == {TextGreatJoy, TextAlarm}
\* blend_weight arguments of update_emotional_state: the ends of [0,1] and the default
BlendWeights == {Zero, <<7, 10>>, One}

\* ------------------------------------------------------ EmotionalState
\* EmotionalState(): the dataclass defaults; emotions maps the emotions present
\* to their intensities
EmotionalState(confidence) ==
    [valence |-> Zero, arousal |-> <<1, 2>>, dominance |-> <<1, 2>>,
     emotions |-> <<>>, confidence |-> confidence, timestamp |-> today]

\* EmotionalState.add_emotion (the intensities passed here are within [0,1])
add_emotion(state, emotion, intensity) ==
    [state EXCEPT !.emotions =
        [e \in DOMAIN state.emotions \cup {emotion} |->
            IF e = emotion THEN intensity ELSE state.emotions[e]]]

\* the sum of the values of an emotions mapping
RECURSIVE EmotionSum(_, _)
EmotionSum(emotions, keys) ==
    IF keys = {} THEN Zero
    ELSE LET e == CHOOSE x \in keys : TRUE
         IN  RAdd(emotions[e], EmotionSum(emotions, keys \ {e}))

\* EmotionalState.get_emotional_intensity
get_emotional_intensity(state) ==
    IF DOMAIN state.emotions = {} THEN Zero
    ELSE RDiv(EmotionSum(state.emotions, DOMAIN state.emotions),
              <<Cardinality(DOMAIN state.emotions), 1>>)

\* EmotionalState.get_dominant_emotion: the candidates of max(), which returns the
\* first maximal item in the iteration order of the dict
dominant_emotions(state) ==
    {e \in DOMAIN state.emotions :
        \A f \in DOMAIN state.emotions : RLeq(state.emotions[f], state.emotions[e])}

\* EmotionalState.get_emotional_quadrant
get_emotional_quadrant(state) ==
    IF RLeq(Zero, state.valence)
    THEN (IF RLeq(<<1, 2>>, state.arousal) THEN "excited" ELSE "content")
    ELSE (IF RLeq(<<1, 2>>, state.arousal) THEN "distressed" ELSE "depressed")

\* a * (1 - weight) + b * weight
Blend(a, b, weight) == RAdd(RMul(a, RSub(One, weight)), RMul(b, weight))

\* the intensity of an emotion in a mapping, 0.0 when it is absent (dict.get)
IntensityOf(emotions, e) == IF e \in DOMAIN emotions THEN emotions[e] ELSE Zero

\* EmotionalState.blend_with
blend_with(self, other_state, weight) ==
    LET all_emotions == DOMAIN self.emotions \cup DOMAIN other_state.emotions
        blended_intensity ==
            [e \in all_emotions |->
                Blend(IntensityOf(self.emotions, e), IntensityOf(other_state.emotions, e),
                      weight)]
    IN  [valence |-> Blend(self.valence, other_state.valence, weight),
         arousal |-> Blend(self.arousal, other_state.arousal, weight),
         dominance |-> Blend(self.dominance, other_state.dominance, weight),
         emotions |-> [e \in {x \in all_emotions : RLt(<<1, 100>>, blended_intensity[x])} |->
                          blended_intensity[e]],
         confidence |-> Blend(self.confidence, other_state.confidence, weight),
         timestamp |-> today]

\* ----------------------------------------------------- EmotionalMemory
\* EmotionalMemory(content, emotional_state, trigger_patterns, decay_rate); created
\* numbers the objects built, which stands for the identity of the object
EmotionalMemory(content, emotional_state, trigger_patterns, decay_rate) ==
    [created |-> memories_created + 1, content |-> content, emotional_state |-> emotional_state, strength |-> One,
     timestamp |-> today, trigger_patterns |-> trigger_patterns, decay_rate |-> decay_rate]

\* x ** n for a natural n
RECURSIVE RPow(_, _)
RPow(x, n) == IF n = 0 THEN One ELSE RMul(x, RPow(x, n - 1))

\* EmotionalMemory.get_current_strength
get_current_strength(memory) ==
    LET days_passed == today - memory.timestamp
    IN  RMax(Zero, RMul(memory.strength, RPow(RSub(One, memory.decay_rate), days_passed)))

\* any(word in context_lower for word in words)
any_word_in(words, context_lower) ==
    \E k \in 1..Len(words) : Contains(context_lower, words[k])

\* the relevance one trigger pattern gives in a context
pattern_relevance(pattern, context_lower) ==
    IF Contains(context_lower, lower(pattern)) THEN <<4, 5>>
    ELSE IF any_word_in(split(lower(pattern)), context_lower) THEN <<2, 5>>
    ELSE Zero

\* the loop of is_relevant over the first k trigger patterns
RECURSIVE relevance_loop(_, _, _)
relevance_loop(patterns, k, context_lower) ==
    IF k = 0 THEN Zero
    ELSE RMax(relevance_loop(patterns, k - 1, context_lower),
              pattern_relevance(patterns[k], context_lower))

\* EmotionalMemory.is_relevant
is_relevant(memory, current_context) ==
    IF memory.trigger_patterns = <<>> THEN Zero
    ELSE RMul(relevance_loop(memory.trigger_patterns, Len(memory.trigger_patterns),
                             lower(current_context)),
              memory.strength)

\* ----------------------------------------------------- EmotionalEngine
\* EmotionalEngine.__init__ configuration
memory_decay_rate == <<1, 100>>               \* 0.01 per day
emotional_influence_threshold == <<3, 10>>    \* 0.3
\* max_emotional_memories: 1000 in the code; the model keeps the truncation of
\* create_emotional_memory and scales the limit down
max_emotional_memories == MaxEmotionalMemories

\* the EmotionalEngine as a value
EmotionalEngine(state, memories, history) ==
    [current_emotional_state |-> state, emotional_memories |-> memories,
     emotional_history |-> history]
TheEmotionalEngine ==
    EmotionalEngine(current_emotional_state, emotional_memories, emotional_history)

\* sum(1 for word in words if word in text_lower)
word_count(words, text_lower) ==
    Cardinality({k \in 1..Len(words) : Contains(text_lower, words[k])})

\* EmotionalEngine._pattern_emotional_analysis
pattern_emotional_analysis(text) ==
    LET text_lower == lower(text)
        positive_count == word_count(positive_words, text_lower)
        negative_count == word_count(negative_words, text_lower)
        arousal_count == word_count(high_arousal_words, text_lower)
        s0 == EmotionalState(<<3, 10>>)
        s1 == IF positive_count > negative_count
              THEN add_emotion([s0 EXCEPT !.valence =
                                    RMin(<<4, 5>>, RMul(<<positive_count, 1>>, <<3, 10>>))],
                               "joy", RMin(<<4, 5>>, RMul(<<positive_count, 1>>, <<1, 5>>)))
              ELSE IF negative_count > positive_count
              THEN add_emotion([s0 EXCEPT !.valence =
                                    RMax(<<-4, 5>>, RMul(<<-negative_count, 1>>, <<3, 10>>))],
                               "sadness",
                               RMin(<<4, 5>>, RMul(<<negative_count, 1>>, <<1, 5>>)))
              ELSE s0
        arousal == RMin(One, RAdd(<<1, 2>>, RMul(<<arousal_count, 1>>, <<1, 5>>)))
    IN  [s1 EXCEPT !.arousal =
            RAdd(arousal, RMin(<<3, 10>>,
                               RAdd(RMul(<<count(text, "!"), 1>>, <<1, 10>>),
                                    RMul(<<count(text, "?"), 1>>, <<1, 20>>))))]

\* EmotionalEngine.update_emotional_state; the clock counts whole days, so the
\* entries of the last 24 hours are those stamped today
update_emotional_state(engine, new_state, blend_weight) ==
    LET appended == Append(engine.emotional_history,
                           <<today, engine.current_emotional_state>>)
        cutoff_time == today - 1
    IN  EmotionalEngine(
            blend_with(engine.current_emotional_state, new_state, blend_weight),
            engine.emotional_memories,
            SelectSeq(appended, LAMBDA entry : entry[1] > cutoff_time))

\* list.sort: the stable sort of s by the strict order Before; an element goes
\* after those that are before it and after the earlier ones it is not before
StableSort(s, Before(_, _)) ==
    LET position(i) ==
            Cardinality({j \in 1..Len(s) :
                            \/ Before(s[j], s[i])
                            \/ j < i /\ ~Before(s[i], s[j])}) + 1
    IN  [k \in 1..Len(s) |-> s[CHOOSE i \in 1..Len(s) : position(i) = k]]

\* the key (m.timestamp, m.get_current_strength()) of the sort in create_emotional_memory
OlderOrWeaker(m, n) ==
    \/ m.timestamp < n.timestamp
    \/ m.timestamp = n.timestamp /\ RLt(get_current_strength(m), get_current_strength(n))

\* EmotionalEngine.create_emotional_memory
create_emotional_memory(engine, content, emotional_state, trigger_patterns) ==
    LET appended ==
            Append(engine.emotional_memories,
                   EmotionalMemory(content, emotional_state, trigger_patterns,
                                   memory_decay_rate))
        kept == IF Len(appended) > max_emotional_memories
                THEN SubSeq(StableSort(appended, OlderOrWeaker),
                            Len(appended) - max_emotional_memories + 1, Len(appended))
                ELSE appended
    IN  EmotionalEngine(engine.current_emotional_state, kept, engine.emotional_history)

\* the key x[1] * x[0].get_current_strength() of the sort in
\* retrieve_emotional_memories, with reverse=True
MoreRelevant(m, n, context) ==
    RLt(RMul(is_relevant(n, context), get_current_strength(n)),
        RMul(is_relevant(m, context), get_current_strength(m)))

\* EmotionalEngine.retrieve_emotional_memories
retrieve_emotional_memories(engine, context, max_memories) ==
    LET relevant_memories ==
            SelectSeq(engine.emotional_memories,
                      LAMBDA m : RLt(emotional_influence_threshold, is_relevant(m, context)))
        sorted == StableSort(relevant_memories, LAMBDA m, n : MoreRelevant(m, n, context))
    IN  SubSeq(sorted, 1, IF Len(sorted) < max_memories THEN Len(sorted) ELSE max_memories)

\* the loop of process_emotional_input over the retrieved memories
RECURSIVE influence_loop(_, _)
influence_loop(state, memories) ==
    IF memories = <<>> THEN state
    ELSE influence_loop(
             CHOOSE s \in {blend_with(state, Head(memories).emotional_state,
                                      RMul(get_current_strength(Head(memories)),
                                           <<3, 10>>))} : TRUE,
             Tail(memories))

\* EmotionalEngine.process_emotional_input with the pattern analysis (no API key):
\* [engine, tags, processed]
process_emotional_input(engine, structured_input) ==
    IF structured_input = <<>>
    THEN [engine |-> engine, quadrant |-> "", processed |-> FALSE]
    ELSE LET input_text == structured_input[1].raw_text
             new_emotional_state == pattern_emotional_analysis(input_text)
             e1 == update_emotional_state(engine, new_emotional_state, <<7, 10>>)
             memories == retrieve_emotional_memories(e1, input_text, 5)
             e2 == EmotionalEngine(influence_loop(e1.current_emotional_state, memories),
                                   e1.emotional_memories, e1.emotional_history)
             e3 == IF RLt(<<1, 5>>, get_emotional_intensity(new_emotional_state))
                   THEN create_emotional_memory(
                            e2, input_text, new_emotional_state,
                            <<SubSeq(input_text, 1,
                                     IF Len(input_text) < 30 THEN Len(input_text) ELSE 30),
                              structured_input[1].intent,
                              structured_input[1].sentiment>>)
                   ELSE e2
         IN  [engine |-> e3,
              quadrant |-> get_emotional_quadrant(e3.current_emotional_state),
              processed |-> TRUE]

\* the record of a call on the engine, and what process_emotional_input wrote
\* into working memory
EmotionCall(op, processed, quadrant, dominant) ==
    [op |-> op, processed |-> processed, quadrant |-> quadrant, dominant |-> dominant]

\* ----- representability of the floats as quotients of bounded integers
\* the largest denominator among the fields of an emotional state
LargestDenominator(state) ==
    LET ds == {state.valence[2], state.arousal[2], state.dominance[2], state.confidence[2]}
                  \cup {state.emotions[e][2] : e \in DOMAIN state.emotions}
    IN  CHOOSE d \in ds : \A e \in ds : e <= d

\* the product of the factors stays within the budget
RECURSIVE Fits(_, _)
Fits(factors, budget) ==
    IF factors = <<>> THEN budget >= 1
    ELSE Fits(Tail(factors), budget \div Head(factors))

\* the blends of one process_emotional_input call keep the denominators bounded
ProcessRepresentable(structured_input) ==
    IF structured_input = <<>> THEN TRUE
    ELSE LET memories == retrieve_emotional_memories(TheEmotionalEngine,
                                                     structured_input[1].raw_text, 5)
         IN  Fits(<<LargestDenominator(current_emotional_state), 200>>
                      \o [i \in 1..Len(memories) |->
                             RMul(get_current_strength(memories[i]), <<3, 10>>)[2]],
                  MaxEmotionDenominator)

\* the blend of one update_emotional_state call keeps the denominators bounded
UpdateRepresentable(blend_weight) ==
    Fits(<<LargestDenominator(current_emotional_state), 20, blend_weight[2]>>,
         MaxEmotionDenominator)


\* EmotionalEngine.__init__, and no call made yet
EmotionFresh ==
    /\ today = 0
    /\ current_emotional_state = EmotionalState(Zero)
    /\ emotional_memories = <<>>
    /\ emotional_history = <<>>
    /\ emotion_ops = 0
    /\ memories_created = 0
    /\ emotion_call = EmotionCall("init", FALSE, "", {})

\* no stream_thoughts generator has been started
StreamFresh ==
    /\ stream_pc = "none"
    /\ last_step_count = 0
    /\ stream_session = 0

\* the session engine of metacognitive_ai as its __init__ leaves it
SessionFresh ==
    /\ current_session = <<>>
    /\ session_history = <<>>
    /\ cognitive_state = "idle"
    /\ monitoring_task = FALSE
    /\ next_session_id = 1
    /\ session_call = [op |-> "init", raised |-> FALSE]

\* the pool driven directly by its callers
Init ==
    /\ PoolInit /\ ThoughtIdle /\ llm = FALSE /\ attention_enabled = TRUE
    /\ max_concurrent_focuses = MaxConcurrent
    /\ SessionFresh /\ EmotionFresh /\ StreamFresh /\ enable_real_time = TRUE
Next == PoolNext
Spec == Init /\ [][Next]_vars

\* the engine driven through process_thought
\* (the engine builds AttentionEngine() with its defaults)
ThoughtSpecInit ==
    /\ PoolInit /\ ThoughtInit /\ max_concurrent_focuses = DefaultMaxConcurrent
    /\ SessionFresh /\ EmotionFresh /\ StreamFresh /\ enable_real_time = TRUE
ThoughtSpec == ThoughtSpecInit /\ [][ThoughtNext]_vars

\* ------------------------------------- a ResponseGenerator used directly
\* a caller fills a WorkingMemory of its own and hands it to generate_response
WmSetInput(structured_input) ==
    /\ working_memory' = set_input(working_memory, structured_input)
    /\ UNCHANGED <<stream_vars, emotion_vars, session_vars, llm, pc, max_cycles, cycle, save_index, ltm_log, next_entry, calls,
                   cycles_requested, outcome, events, pool_vars, engine_vars>>

WmAddInsight ==
    /\ next_entry <= MaxInsights
    /\ working_memory' = add_insight(working_memory, next_entry)
    /\ next_entry' = next_entry + 1
    /\ UNCHANGED <<stream_vars, emotion_vars, session_vars, llm, pc, max_cycles, cycle, save_index, ltm_log, calls,
                   cycles_requested, outcome, events, pool_vars, engine_vars>>

WmClear ==
    /\ working_memory # EmptyWorkingMemory
    /\ working_memory' = clear(working_memory)
    /\ UNCHANGED <<stream_vars, emotion_vars, session_vars, llm, pc, max_cycles, cycle, save_index, ltm_log, next_entry, calls,
                   cycles_requested, outcome, events, pool_vars, engine_vars>>

\* response_generator.generate_response(working_memory); `failed`: the model call raises
GenerateResponse(failed) ==
    /\ calls < MaxCalls
    /\ failed => llm /\ is_ready_for_response(working_memory)
    /\ calls' = calls + 1
    /\ outcome' = generate_response(working_memory, failed)
    /\ events' = Append(events, [kind |-> "respond",
                                 has_input |-> working_memory.structured_input # <<>>,
                                 model |-> llm, failed |-> failed,
                                 response |-> outcome'])
    /\ UNCHANGED <<stream_vars, emotion_vars, session_vars, working_memory, llm, pc, max_cycles, cycle, save_index, ltm_log,
                   next_entry, cycles_requested, pool_vars, engine_vars>>

ResponseNext ==
    \/ \E si \in PerceptionResults : WmSetInput(si)
    \/ WmAddInsight
    \/ WmClear
    \/ \E failed \in BOOLEAN : GenerateResponse(failed)

\* ResponseGenerator.__init__ with or without a model key, and a fresh WorkingMemory
ResponseInit ==
    /\ PoolInit /\ ThoughtIdle /\ llm \in BOOLEAN /\ attention_enabled = FALSE
    /\ max_concurrent_focuses = DefaultMaxConcurrent
    /\ SessionFresh /\ EmotionFresh /\ StreamFresh /\ enable_real_time = TRUE
ResponseSpec == ResponseInit /\ [][ResponseNext]_vars

\* ------------------------------------- an AttentionEngine used directly
\* AttentionState.get_dominant_focus: index of the first focus of highest
\* relevance score, 0 on an empty pool
get_dominant_focus(fs) ==
    IF fs = <<>> THEN 0
    ELSE CHOOSE i \in 1..Len(fs) :
            /\ \A j \in 1..Len(fs) :
                  RLeq(get_relevance_score(fs[j]), get_relevance_score(fs[i]))
            /\ \A j \in 1..(i - 1) :
                  RLt(get_relevance_score(fs[j]), get_relevance_score(fs[i]))

\* weights are exact rationals: process is explored from pools whose weights have
\* a common denominator up to MaxDenominator
MaxDenominator == 100
CommonDenominator(fs) ==
    LET F[i \in 0..Len(fs)] ==
            IF i = 0 THEN 1
            ELSE IF F[i - 1] > MaxDenominator THEN F[i - 1]
            ELSE (fs[i].weight[2] \div GCD(fs[i].weight[2], F[i - 1])) * F[i - 1]
    IN  F[Len(fs)]
WeightsRepresentable == CommonDenominator(current_focuses) <= MaxDenominator

WmAddRetrieved(n) ==
    /\ working_memory.retrieved_memories = 0
    /\ working_memory' = add_retrieved_memories(working_memory, n)
    /\ UNCHANGED <<stream_vars, emotion_vars, session_vars, llm, pc, max_cycles, cycle, save_index, ltm_log, next_entry, calls,
                   cycles_requested, outcome, events, pool_vars, engine_vars>>

\* attention_engine.process(working_memory): last_call records the id of the
\* first focus the call allocates and how many it allocates
AttentionProcess ==
    /\ calls < MaxCalls
    /\ WeightsRepresentable
    /\ \E att \in {attention_process(ThePool, working_memory, current_strategy)} :
          /\ SetPool(att.pool)
          /\ working_memory' = att.wm
          /\ next_id' = next_id + att.allocated
          /\ last_call' = [Call("process", next_id, Zero, att.result) EXCEPT
                              !.returned = att.allocated]
    /\ processing_start_time' = now
    /\ calls' = calls + 1
    /\ UNCHANGED <<stream_vars, emotion_vars, session_vars, llm, pc, max_cycles, cycle, save_index, ltm_log, next_entry,
                   cycles_requested, outcome, events, now, ops,
                   current_strategy, attention_enabled, max_concurrent_focuses>>

RetrievedCounts == {1, 3}

AttentionNext ==
    \/ \E si \in PerceptionResults : WmSetInput(si)
    \/ \E n \in RetrievedCounts : WmAddRetrieved(n)
    \/ AttentionProcess
    \/ \E name \in Strategies : SetStrategy(name)
    \/ TimePasses

\* AttentionEngine(...) as the engine and as the tests build it, and a fresh WorkingMemory
AttentionInit ==
    /\ PoolInit /\ ThoughtIdle /\ llm = FALSE /\ attention_enabled = TRUE
    /\ max_concurrent_focuses \in {FixtureMaxConcurrent, DefaultMaxConcurrent}
    /\ SessionFresh /\ EmotionFresh /\ StreamFresh /\ enable_real_time = TRUE
AttentionSpec == AttentionInit /\ [][AttentionNext]_vars

\* ---------- an AttentionEngine whose callers also reach into its pool
\* allocate_attention, remove_focus and cleanup_expired_focuses between the
\* process calls
EngineRequests ==
    {<<t, <<1, 2>>, p>> : t \in Types, p \in Priorities}
EnginePerceptions == {si \in PerceptionResults : si.entities = 0}
\* the calls made on one engine, process calls and direct pool calls together,
\* are bounded by MaxOps
EngineBudget == calls + ops < MaxOps
EngineNext ==
    \/ \E si \in EnginePerceptions : WmSetInput(si)
    \/ EngineBudget /\ AttentionProcess
    \/ \E name \in Strategies : SetStrategy(name)
    \/ EngineBudget /\ \E q \in EngineRequests : AllocateAttention(q[1], q[2], q[3])
    \/ EngineBudget /\ \E id \in Ids : RemoveFocus(id)
    \/ EngineBudget /\ CleanupExpiredFocuses
    \/ Tick
\* the engine as the tests build it
EngineInit == AttentionInit /\ max_concurrent_focuses = FixtureMaxConcurrent
EngineSpec == EngineInit /\ [][EngineNext]_vars

\* ------------------------------------------- the calls on an EmotionalEngine
SetEmotionalEngine(engine) ==
    /\ current_emotional_state' = engine.current_emotional_state
    /\ emotional_memories' = engine.emotional_memories
    /\ emotional_history' = engine.emotional_history

\* process_emotional_input(working_memory), given the structured input it holds
ProcessEmotionalInput(structured_input) ==
    /\ emotion_ops < MaxEmotionOps
    /\ ProcessRepresentable(structured_input)
    /\ \E r \in {process_emotional_input(TheEmotionalEngine, structured_input)} :
          /\ SetEmotionalEngine(r.engine)
          /\ memories_created' =
                 IF r.engine.emotional_memories = emotional_memories
                 THEN memories_created ELSE memories_created + 1
          /\ emotion_call' =
                 EmotionCall("process_emotional_input", r.processed, r.quadrant,
                             dominant_emotions(r.engine.current_emotional_state))
    /\ emotion_ops' = emotion_ops + 1
    /\ UNCHANGED <<stream_vars, today, session_vars, pool_vars, engine_vars, thought_vars>>

\* update_emotional_state(new_state, blend_weight) with the analysis of a text
UpdateEmotionalState(text, blend_weight) ==
    /\ emotion_ops < MaxEmotionOps
    /\ UpdateRepresentable(blend_weight)
    /\ \E e \in {update_emotional_state(TheEmotionalEngine, pattern_emotional_analysis(text),
                                        blend_weight)} :
          SetEmotionalEngine(e)
    /\ emotion_call' = EmotionCall("update_emotional_state", TRUE, "", {})
    /\ emotion_ops' = emotion_ops + 1
    /\ UNCHANGED <<stream_vars, today, memories_created, session_vars, pool_vars, engine_vars,
                   thought_vars>>

\* create_emotional_memory(content, emotional_state, trigger_patterns)
CreateEmotionalMemory(text) ==
    /\ emotion_ops < MaxEmotionOps
    /\ \E e \in {create_emotional_memory(TheEmotionalEngine, text,
                                         pattern_emotional_analysis(text), <<text>>)} :
          SetEmotionalEngine(e)
    /\ memories_created' = memories_created + 1
    /\ emotion_call' = EmotionCall("create_emotional_memory", TRUE, "", {})
    /\ emotion_ops' = emotion_ops + 1
    /\ UNCHANGED <<stream_vars, today, session_vars, pool_vars, engine_vars, thought_vars>>

\* a day goes by
DayPasses ==
    /\ today < MaxDays
    /\ today' = today + 1
    /\ UNCHANGED <<stream_vars, current_emotional_state, emotional_memories, emotional_history,
                   emotion_ops, memories_created, emotion_call,
                   session_vars, pool_vars, engine_vars, thought_vars>>

EmotionNext ==
    \/ \E si \in EmotionalInputs : ProcessEmotionalInput(<<si>>)
    \/ ProcessEmotionalInput(<<>>)
    \/ \E text \in EmotionalTexts, w \in BlendWeights : UpdateEmotionalState(text, w)
    \/ \E text \in EmotionalTexts : CreateEmotionalMemory(text)
    \/ DayPasses

\* EmotionalEngine() without GEMINI_API_KEY, beside an idle attention engine
EmotionInit == AttentionInit /\ max_concurrent_focuses = DefaultMaxConcurrent
EmotionSpec == EmotionInit /\ [][EmotionNext]_vars

\* ------------------------- the session engine (metacognitive_ai/core/engine.py)
MaxSessions == 2          \* sessions one behaviour starts
MaxPatterns == 1          \* entries the monitor appends to patterns_detected
PatternThreshold == 3     \* _monitor_realtime looks for patterns above three steps
StepLimit == PatternThreshold + 1

CognitiveStates == {"idle", "thinking", "analyzing", "reflecting", "responding"}

\* MetacognitiveSession(initial_prompt=prompt, start_time=time.time()); the
\* steps and the detected patterns are kept as their numbers, and of the two
\* times the one that orders the archive, end_time
MetacognitiveSession(id, t) ==
    [id |-> id, end_time |-> <<>>, cognitive_steps |-> 0,
     patterns_detected |-> 0, introspection_report |-> <<>>,
     performance_metrics |-> <<>>]

\* the fields of the engine its session operations read and write
SessionEngine(cs, sh, st, mt) ==
    [current_session |-> cs, session_history |-> sh, cognitive_state |-> st,
     monitoring_task |-> mt]
TheSessionEngine ==
    SessionEngine(current_session, session_history, cognitive_state, monitoring_task)

\* MetacognitiveEngine.add_thought_step: [engine, raised]
add_thought_step(e) ==
    IF e.current_session = <<>>
    THEN [engine |-> e, raised |-> TRUE]
    ELSE [engine |-> [e EXCEPT !.current_session[1].cognitive_steps = @ + 1],
          raised |-> FALSE]

\* generate_introspection that enters ANALYZING before it looks for the session
generate_introspection_late_check(e) ==
    IF e.current_session = <<>>
    THEN [engine |-> [e EXCEPT !.cognitive_state = "analyzing"], raised |-> TRUE]
    ELSE [engine |->
              [e EXCEPT !.cognitive_state = "analyzing",
                        !.current_session[1].introspection_report =
                            <<[total_steps |-> e.current_session[1].cognitive_steps]>>],
          raised |-> FALSE]

\* MetacognitiveEngine.generate_introspection: [engine, raised]
generate_introspection(e) ==
    IF e.current_session = <<>>
    THEN [engine |-> e, raised |-> TRUE]
    ELSE [engine |->
              [e EXCEPT !.cognitive_state = "analyzing",
                        !.current_session[1].introspection_report =
                            <<[total_steps |-> e.current_session[1].cognitive_steps]>>],
          raised |-> FALSE]

\* end_session that archives the session and leaves the cognitive state as it is
end_session_keeps_state(e, t) ==
    IF e.current_session = <<>>
    THEN [engine |-> e, raised |-> TRUE]
    ELSE LET e1 == [e EXCEPT !.monitoring_task = FALSE,
                             !.current_session[1].end_time = <<t>>]
             e2 == IF e1.current_session[1].introspection_report = <<>>
                   THEN generate_introspection(e1).engine
                   ELSE e1
             completed_session ==
                 [e2.current_session[1] EXCEPT
                     !.performance_metrics =
                         <<[total_steps |-> e2.current_session[1].cognitive_steps]>>]
         IN  [engine |-> [e2 EXCEPT !.session_history = Append(@, completed_session),
                                    !.current_session = <<>>],
              raised |-> FALSE]

\* MetacognitiveEngine.end_session at time t: [engine, raised]
end_session(e, t) ==
    IF e.current_session = <<>>
    THEN [engine |-> e, raised |-> TRUE]
    ELSE LET e1 == [e EXCEPT !.monitoring_task = FALSE,
                             !.current_session[1].end_time = <<t>>]
             e2 == IF e1.current_session[1].introspection_report = <<>>
                   THEN generate_introspection(e1).engine
                   ELSE e1
             completed_session ==
                 [e2.current_session[1] EXCEPT
                     !.performance_metrics =
                         <<[total_steps |-> e2.current_session[1].cognitive_steps]>>]
         IN  [engine |-> [e2 EXCEPT !.session_history = Append(@, completed_session),
                                    !.current_session = <<>>,
                                    !.cognitive_state = "idle"],
              raised |-> FALSE]

\* start_session that replaces the current session without ending it
start_session_no_end(e, id, t, real_time) ==
    [e EXCEPT !.current_session = <<MetacognitiveSession(id, t)>>,
              !.cognitive_state = "thinking",
              !.monitoring_task = IF real_time THEN TRUE ELSE @]

\* MetacognitiveEngine.start_session at time t; id is the uuid of the new session
start_session(e, id, t, real_time) ==
    LET e1 == IF e.current_session # <<>> THEN end_session(e, t).engine ELSE e
    IN  [e1 EXCEPT !.current_session = <<MetacognitiveSession(id, t)>>,
                   !.cognitive_state = "thinking",
                   !.monitoring_task = IF real_time THEN TRUE ELSE @]

SetSessionEngine(e) ==
    /\ current_session' = e.current_session
    /\ session_history' = e.session_history
    /\ cognitive_state' = e.cognitive_state
    /\ monitoring_task' = e.monitoring_task

SessionCall(op, raised) == [op |-> op, raised |-> raised]

StartSession ==
    /\ next_session_id <= MaxSessions
    /\ SetSessionEngine(start_session(TheSessionEngine, next_session_id, now,
                                      enable_real_time))
    /\ next_session_id' = next_session_id + 1
    /\ session_call' = SessionCall("start_session", FALSE)
    /\ UNCHANGED <<stream_vars, emotion_vars, enable_real_time, pool_vars, engine_vars, thought_vars>>

AddThoughtStep ==
    /\ current_session # <<>> => current_session[1].cognitive_steps < StepLimit
    /\ \E r \in {add_thought_step(TheSessionEngine)} :
          /\ SetSessionEngine(r.engine)
          /\ session_call' = SessionCall("add_thought_step", r.raised)
    /\ UNCHANGED <<stream_vars, emotion_vars, enable_real_time, next_session_id, pool_vars, engine_vars,
                   thought_vars>>

GenerateIntrospection ==
    /\ \E r \in {generate_introspection(TheSessionEngine)} :
          /\ SetSessionEngine(r.engine)
          /\ session_call' = SessionCall("generate_introspection", r.raised)
    /\ UNCHANGED <<stream_vars, emotion_vars, enable_real_time, next_session_id, pool_vars, engine_vars,
                   thought_vars>>

EndSession ==
    /\ \E r \in {end_session(TheSessionEngine, now)} :
          /\ SetSessionEngine(r.engine)
          /\ session_call' = SessionCall("end_session", r.raised)
    /\ UNCHANGED <<stream_vars, emotion_vars, enable_real_time, next_session_id, pool_vars, engine_vars,
                   thought_vars>>

\* one pass of the loop of _monitor_realtime after its sleep; _detect_patterns
\* returns up to two patterns, by the types and confidences of the last steps
MonitorRealtime ==
    /\ monitoring_task
    /\ current_session # <<>> /\ cognitive_state # "idle"
    /\ current_session[1].cognitive_steps > PatternThreshold
    /\ \E n \in 1..2 :
          /\ current_session[1].patterns_detected + n <= MaxPatterns
          /\ current_session' =
                 [current_session EXCEPT ![1].patterns_detected = @ + n]
    /\ UNCHANGED <<stream_vars, emotion_vars, session_history, cognitive_state, monitoring_task,
                   enable_real_time,
                   next_session_id, session_call, pool_vars, engine_vars, thought_vars>>

SessionNext ==
    \/ StartSession
    \/ AddThoughtStep
    \/ GenerateIntrospection
    \/ EndSession
    \/ MonitorRealtime
    \/ Tick

\* MetacognitiveEngine(enable_real_time=...) of metacognitive_ai, just built
SessionInit ==
    /\ PoolInit /\ ThoughtIdle /\ llm = FALSE /\ attention_enabled = FALSE
    /\ max_concurrent_focuses = DefaultMaxConcurrent
    /\ SessionFresh /\ EmotionFresh /\ StreamFresh /\ enable_real_time \in BOOLEAN
SessionSpec == SessionInit /\ [][SessionNext]_vars

\* the test of the polling loop of stream_thoughts: sleep again, or leave the loop
stream_thoughts_test(e) ==
    IF e.current_session # <<>> /\ e.cognitive_state # "idle" THEN "sleeping" ELSE "finished"

\* MetacognitiveEngine.stream_thoughts from its call to its first sleep; a consumer
\* that takes each yielded step without awaiting leaves the generator suspended
\* nowhere but in that sleep: [pc, last_step_count]
stream_thoughts_open(e) ==
    IF e.current_session = <<>>
    THEN [pc |-> "raised", last_step_count |-> 0]
    ELSE [pc |-> stream_thoughts_test(e),
          last_step_count |-> e.current_session[1].cognitive_steps]

\* stream_thoughts from the end of one sleep to the next: [pc, last_step_count];
\* len(self.current_session.cognitive_steps) raises AttributeError on None
stream_thoughts_poll(e, last) ==
    IF e.current_session = <<>>
    THEN [pc |-> "raised", last_step_count |-> last]
    ELSE LET current_step_count == e.current_session[1].cognitive_steps
         IN  [pc |-> stream_thoughts_test(e),
              last_step_count |-> IF current_step_count > last
                                  THEN current_step_count ELSE last]

\* the session a suspended stream is polling
PolledSession(position) ==
    IF position = "sleeping" THEN current_session[1].id ELSE stream_session

\* a consumer starts iterating stream_thoughts()
StreamThoughts ==
    /\ stream_pc = "none"
    /\ \E r \in {stream_thoughts_open(TheSessionEngine)} :
          /\ stream_pc' = r.pc
          /\ last_step_count' = r.last_step_count
          /\ stream_session' = PolledSession(r.pc)
    /\ UNCHANGED <<emotion_vars, session_vars, pool_vars, engine_vars, thought_vars>>

\* asyncio.sleep(0.1) is over and the generator runs to its next sleep or its end
StreamWakes ==
    /\ stream_pc = "sleeping"
    /\ \E r \in {stream_thoughts_poll(TheSessionEngine, last_step_count)} :
          /\ stream_pc' = r.pc
          /\ last_step_count' = r.last_step_count
          /\ stream_session' = PolledSession(r.pc)
    /\ UNCHANGED <<emotion_vars, session_vars, pool_vars, engine_vars, thought_vars>>

StreamNext ==
    \/ StartSession
    \/ AddThoughtStep
    \/ GenerateIntrospection
    \/ EndSession
    \/ MonitorRealtime
    \/ StreamThoughts
    \/ StreamWakes
    \/ Tick

\* the session engine with one consumer of stream_thoughts beside its callers
StreamSpec == SessionInit /\ [][StreamNext]_vars

\* ------------------------------------------------------------------ claims
FocusIds(fs) == {fs[i].focus_id : i \in 1..Len(fs)}
WeightOf(fs, id) == fs[IndexOf(fs, id)].weight
AddStep == last_call'.op = "add_focus" /\ ops' = ops + 1

\* C1: after any sequence of add_focus, remove_focus, update_focus_weight and
\* cleanup_expired_focuses calls, whatever the weight arguments,
\* current_attention_usage equals the sum of the weights of current_focuses.
C1_UsageEqualsSum ==
    current_attention_usage = RSum(Weights_of(current_focuses))

\* C2: in every reachable pool the sum of the current focus weights does not
\* exceed total_attention_capacity.
C2_SumWithinCapacity ==
    RLeq(RSum(Weights_of(current_focuses)), total_attention_capacity)

\* C3: after every add_focus or remove_focus call the pool holds at most
\* max_concurrent_focuses focuses.
C3_AtMostMaxConcurrent ==
    Len(current_focuses) <= max_concurrent_focuses

\* an add_focus call on a full pool has returned, and the pool is full again
C3_Witness ==
    /\ last_call.op = "add_focus"
    /\ last_call.evicted
    /\ Len(current_focuses) = max_concurrent_focuses

\* C4: every focus held in the pool has a weight within [0,1], whatever weight
\* is passed to allocate_attention and update_focus_weight.
C4_WeightsInUnitInterval ==
    \A i \in 1..Len(current_focuses) :
        /\ RLeq(Zero, current_focuses[i].weight)
        /\ RLeq(current_focuses[i].weight, One)

C6_FullPoolEvictsLowest ==
    [][(AddStep /\ Len(current_focuses) = max_concurrent_focuses) =>
        /\ Len(attention_history') = Len(attention_history) + 1
        /\ SubSeq(attention_history', 1, Len(attention_history)) = attention_history
        /\ LET e == attention_history'[Len(attention_history')]
           IN  /\ \E i \in 1..Len(current_focuses) : current_focuses[i] = e
               /\ \A j \in 1..Len(current_focuses) : ~KeyLt(current_focuses[j], e)
               /\ FocusIds(current_focuses') =
                     (FocusIds(current_focuses) \ {e.focus_id}) \cup {last_call'.id}
        /\ Len(current_focuses') = max_concurrent_focuses]_vars

\* an eviction that had to choose: the evicted focus was not the oldest one
C6_Witness ==
    /\ last_call.op = "add_focus"
    /\ last_call.evicted
    /\ attention_history # <<>>
    /\ \E i \in 1..Len(current_focuses) :
          current_focuses[i].focus_id <
              attention_history[Len(attention_history)].focus_id

\* C7: add_focus never takes an existing focus below attention_threshold: a
\* focus at or above the threshold stays at or above it, a focus at or below
\* the threshold keeps its weight, and no existing focus gains weight.
C7_RebalanceKeepsThreshold ==
    [][AddStep =>
        \A id \in FocusIds(current_focuses) \cap FocusIds(current_focuses') :
            LET w == WeightOf(current_focuses, id)
                v == WeightOf(current_focuses', id)
            IN  /\ RLeq(attention_threshold, w) => RLeq(attention_threshold, v)
                /\ RLeq(w, attention_threshold) => v = w
                /\ RLeq(v, w)]_vars

\* rebalancing asked for more than the existing focuses could give: one of
\* them was cut down to the threshold exactly
C7_Witness ==
    /\ last_call.op = "add_focus"
    /\ last_call.reduced
    /\ \E i \in 1..(Len(current_focuses) - 1) :
          current_focuses[i].weight = attention_threshold
    /\ RLt(total_attention_capacity, RSum(Weights_of(current_focuses)))

\* ---------------------------------------------------- process_thought
IsCycle(e) == e.kind = "cycle"
IsStore(e) == e.kind = "store"
CycleEvents == SelectSeq(events, IsCycle)
StoreEvents == SelectSeq(events, IsStore)
Responses == {"need_more_information", "simple_response", "generated_response"}
Returned == pc = "idle" /\ outcome \in Responses
LoopLeft == pc = "learning" \/ Returned

\* the stabilization predicate on what a cycle reported
NoProgress(e) == ~e.association /\ ~e.introspection
StabilizationHeld(e) == NoProgress(e) \/ RLt(<<4, 5>>, e.confidence)

\* C8: the loop of process_thought stops after the first cycle in which both
\* phases reported no progress or the confidence exceeded 0.8; if there is no
\* such cycle it runs exactly max_cycles cycles; cycle_count is the number of
\* cycles run and never exceeds max_cycles.
C8_LoopStopsAtFirstStableCycle ==
    LET cs == CycleEvents
        n == Len(cs)
    IN  /\ working_memory.cognitive_state.cycle_count = n
        /\ n <= max_cycles
        /\ \A k \in 1..(n - 1) : ~StabilizationHeld(cs[k])
        /\ pc = "cycling" => n < max_cycles /\ (n > 0 => ~StabilizationHeld(cs[n]))
        /\ LoopLeft => (n > 0 /\ StabilizationHeld(cs[n])) \/ n = max_cycles

\* a call that returned after stopping at its second cycle, one short of max_cycles
C8_Witness ==
    /\ Returned
    /\ Len(CycleEvents) = 2
    /\ max_cycles = 3
    /\ StabilizationHeld(CycleEvents[2])

C9_WitnessUnstable ==
    /\ Returned
    /\ Len(CycleEvents) = max_cycles
    /\ max_cycles > 0
    /\ ~working_memory.cognitive_state.is_stable

\* C10: in a process_thought call every insight held in working memory at the
\* end of the cycles is passed to the long-term store exactly once, all these
\* store calls come after the last cycle and before the response generator,
\* and no insight of an earlier call is stored again.
C10_InsightsStoredOnce ==
    /\ \A i, j \in 1..Len(events) :
          i < j => /\ ~(events[i].kind = "store" /\ events[j].kind = "cycle")
                   /\ events[i].kind # "respond"
    /\ Returned =>
          /\ [k \in 1..Len(StoreEvents) |-> StoreEvents[k].entry]
                = working_memory.generated_insights
          /\ events # <<>> /\ events[Len(events)].kind = "respond"
    /\ \A i, j \in 1..Len(ltm_log) : i # j => ltm_log[i] # ltm_log[j]

\* a second call has returned with insights stored, after a first call stored its own
C10_Witness ==
    /\ Returned
    /\ calls = 2
    /\ Len(working_memory.generated_insights) >= 2
    /\ Len(ltm_log) > Len(working_memory.generated_insights)

\* --------------------------------------------------- collaborator errors
\* C11: an error raised by a collaborator call of process_thought (perception,
\* association, introspection, response generation) does not leave
\* process_thought: a call that has ended has returned a response string
\* (the long-term store raising in the learning phase is not among them).
C11_CollaboratorErrorsContained ==
    (pc = "idle" /\ calls > 0 /\ events = <<>>) => outcome \in Responses

\* C12: generate_response never raises and always returns a string: the fixed
\* message when the working memory holds no structured input, the templated
\* fallback when no model is configured or the model call raises, and the
\* model's text otherwise.
C12_ResponseAlwaysAString ==
    /\ outcome \in Responses \cup {"none"}
    /\ \A k \in 1..Len(events) :
          LET e == events[k]
          IN  /\ e.response \in Responses
              /\ ~e.has_input => e.response = "need_more_information"
              /\ (e.has_input /\ (~e.model \/ e.failed)) => e.response = "simple_response"
              /\ (e.has_input /\ e.model /\ ~e.failed) => e.response = "generated_response"

\* the model call raised and the templated fallback was returned, after an
\* earlier call on a memory without input returned the fixed message
C12_Witness ==
    /\ Len(events) = 2
    /\ ~events[1].has_input /\ events[1].response = "need_more_information"
    /\ events[2].failed /\ events[2].response = "simple_response"

\* C13: allocate_attention with an attention type that is no member of the
\* AttentionType enumeration is rejected: it returns no focus id and leaves
\* current_focuses, current_attention_usage and attention_history unchanged,
\* so no focus of such a type is ever held.
C13_InvalidTypeRejected ==
    [][AddStep =>
         /\ last_call'.returned = 0 =>
              UNCHANGED <<current_focuses, current_attention_usage, attention_history>>
         /\ \A i \in 1..Len(current_focuses') :
              current_focuses'[i].attention_type \in AttentionTypes]_vars

\* ---- strategies of AttentionEngine.process
REq(a, b) == RLeq(a, b) /\ RLeq(b, a)

\* a step of process under the named strategy
ProcessUnder(name) == AttentionProcess /\ current_strategy = name

\* the focus of the pool fs that carries the id, <<>> when the pool holds none
FocusWithId(fs, id) == SelectSeq(fs, LAMBDA f : f.focus_id = id)

\* the k-th allocation request of a process call is held, as requested, by the
\* pool after the call
HeldAsRequested(requests, k) ==
    LET held == FocusWithId(current_focuses', next_id + k - 1)
    IN  /\ Len(held) = 1
        /\ held[1].attention_type = requests[k].type
        /\ held[1].priority = requests[k].priority
        /\ REq(held[1].weight, requests[k].weight)

\* the weights the pool holds after the call for the requests numbered in ks
RECURSIVE HeldWeight(_)
HeldWeight(ks) ==
    IF ks = {} THEN Zero
    ELSE LET k == CHOOSE x \in ks : TRUE
             held == FocusWithId(current_focuses', next_id + k - 1)
         IN  RAdd(IF held = <<>> THEN Zero ELSE held[1].weight, HeldWeight(ks \ {k}))

\* C14: after any process call under the balanced strategy, on an empty or a
\* non-empty pool, the focuses the call allocated are all held at MEDIUM
\* priority with weights proportional to the needs, summing to 0.8 of the
\* capacity.
C14_BalancedAllocation ==
    [][ProcessUnder("balanced") =>
         LET requests == balanced_attention_strategy(analyze_attention_needs(working_memory))
         IN  /\ \A k \in 1..Len(requests) :
                   /\ requests[k].priority = "medium"
                   /\ HeldAsRequested(requests, k)
             /\ REq(HeldWeight(1..Len(requests)),
                    RMul(total_attention_capacity, <<4, 5>>))]_vars

\* C15: after any process call under the focused strategy the focus of the
\* type of highest need is held with weight 0.7 of the capacity at HIGH
\* priority, and the remaining focuses of the call are held at LOW priority
\* with weights proportional to their needs, summing to 0.3 of the capacity.
C15_FocusedAllocation ==
    [][ProcessUnder("focused") =>
         LET needs == analyze_attention_needs(working_memory)
             requests == focused_attention_strategy(needs)
         IN  /\ requests[1].type = needs[primary_index(needs)][1]
             /\ requests[1].priority = "high"
             /\ REq(requests[1].weight, RMul(total_attention_capacity, <<7, 10>>))
             /\ HeldAsRequested(requests, 1)
             /\ \A k \in 2..Len(requests) :
                   /\ requests[k].priority = "low"
                   /\ HeldAsRequested(requests, k)
             /\ Len(requests) > 1 =>
                   REq(HeldWeight(2..Len(requests)),
                       RMul(total_attention_capacity, <<3, 10>>))]_vars

\* C16: after any process call under the focused strategy, repeated calls on
\* the same engine included, the pool has a dominant focus and its weight is
\* greater than 0.5.
C16_FocusedDominant ==
    [][ProcessUnder("focused") =>
         LET dominant == get_dominant_focus(current_focuses')
         IN  /\ dominant # 0
             /\ RLt(<<1, 2>>, current_focuses'[dominant].weight)]_vars

\* C17: after a process call under the exploratory strategy each of the five
\* attention types has a focus allocated by that call in the pool, at MEDIUM
\* priority and with weight min(capacity / 5, need + 0.1), the need of a type
\* without an analysed need being 0.1.
C17_ExploratoryAllocation ==
    [][ProcessUnder("exploratory") =>
         LET needs == analyze_attention_needs(working_memory)
         IN  \A t \in AttentionTypes :
                \E k \in 1..Len(AttentionType) :
                   LET held == FocusWithId(current_focuses', next_id + k - 1)
                   IN  /\ Len(held) = 1
                       /\ held[1].attention_type = t
                       /\ held[1].priority = "medium"
                       /\ REq(held[1].weight,
                              RMin(RDiv(total_attention_capacity, <<5, 1>>),
                                   RAdd(need_of(needs, t, <<1, 10>>), <<1, 10>>)))]_vars

\* ---- sessions of the session engine
\* C18: cognitive_state is IDLE exactly when there is no current session;
\* start_session leaves the engine THINKING with a session, and end_session
\* leaves it IDLE without one.
C18_IdleIffNoSession ==
    /\ (cognitive_state = "idle") <=> (current_session = <<>>)
    /\ session_call.op = "start_session" =>
          cognitive_state = "thinking" /\ current_session # <<>>
    /\ (session_call.op = "end_session" /\ ~session_call.raised) =>
          cognitive_state = "idle" /\ current_session = <<>>

\* a session that was analysed by generate_introspection has been ended
C18_Witness ==
    /\ session_call = SessionCall("end_session", FALSE)
    /\ cognitive_state = "idle" /\ current_session = <<>>
    /\ Len(session_history) = 1
    /\ session_history[1].cognitive_steps > session_history[1].introspection_report[1].total_steps

\* C19: every started session is in session_history exactly once as soon as
\* it was ended, by end_session or by the next start_session; the history is
\* in the order of completion; there is at most one current session.
C19_HistoryOnceInOrder ==
    /\ Len(current_session) <= 1
    /\ \A i \in 1..Len(session_history) :
          /\ session_history[i].id = i
          /\ session_history[i].end_time # <<>>
    /\ \A i \in 1..Len(session_history), j \in 1..Len(session_history) :
          i < j => session_history[i].end_time[1] <= session_history[j].end_time[1]
    /\ current_session = <<>> => Len(session_history) = next_session_id - 1
    /\ current_session # <<>> =>
          /\ current_session[1].id = next_session_id - 1
          /\ current_session[1].end_time = <<>>
          /\ Len(session_history) = next_session_id - 2

\* two sessions are archived in the order they ended, at different times, the
\* first with a report over its one step
C19_Witness ==
    /\ Len(session_history) = 2 /\ current_session = <<>>
    /\ session_history[1].introspection_report[1].total_steps = 1
    /\ session_history[1].end_time[1] < session_history[2].end_time[1]

\* C20: add_thought_step, generate_introspection and end_session called
\* without an active session raise ValueError and leave current_session,
\* session_history and cognitive_state as they were.
C20_NoSessionCallsRaise ==
    [][((AddThoughtStep \/ GenerateIntrospection \/ EndSession)
            /\ current_session = <<>>) =>
         /\ session_call'.raised
         /\ UNCHANGED <<current_session, session_history, cognitive_state>>]_vars

\* end_session raised on an engine that has already archived a session
C20_Witness ==
    /\ session_call = SessionCall("end_session", TRUE)
    /\ Len(session_history) = 1
    /\ current_session = <<>> /\ cognitive_state = "idle"

\* ---- rebalancing and eviction in add_focus
\* the pool add_focus rebalances: the pool of the call after its eviction
PoolBeforeRebalance ==
    IF Len(current_focuses) >= max_concurrent_focuses
    THEN remove_lowest_priority_focus(ThePool)
    ELSE ThePool

\* the total reducible weight of a pool: the sum of max(0, weight - threshold)
TotalReducible(pool) ==
    RSum([i \in 1..Len(pool.focuses) |-> reducible_weight(pool.focuses[i])])

\* C23: whenever add_focus rebalances and the total reducible weight of the
\* existing focuses is positive, their total weight goes down by exactly
\* reduction_needed = required - (capacity - usage), so that the usage after
\* the insertion of the new focus equals the capacity.
C23_RebalanceFreesExactly ==
    [][(AddStep /\ last_call'.rebalanced /\ RLt(Zero, TotalReducible(PoolBeforeRebalance))) =>
         LET before == PoolBeforeRebalance
             reduction_needed ==
                 RSub(last_call'.weight, RSub(total_attention_capacity, before.usage))
             existing == SubSeq(current_focuses', 1, Len(current_focuses') - 1)
         IN  /\ REq(RSub(RSum(Weights_of(before.focuses)), RSum(Weights_of(existing))),
                    reduction_needed)
             /\ REq(current_attention_usage', total_attention_capacity)]_vars

\* C28: eviction does not look at the incoming focus: on a full pool add_focus
\* evicts exactly one existing focus, the lowest of the pool, whatever the
\* priority of the focus being allocated, and the incoming focus is held
\* after the call and is never the one evicted.
C28_EvictionIgnoresIncoming ==
    [][(AddStep /\ Len(current_focuses) >= max_concurrent_focuses
                /\ current_focuses # <<>>) =>
         LET lowest == current_focuses[lowest_index(current_focuses)]
         IN  /\ Len(attention_history') = Len(attention_history) + 1
             /\ attention_history'[Len(attention_history')].focus_id = lowest.focus_id
             /\ FocusIds(current_focuses') =
                    (FocusIds(current_focuses) \ {lowest.focus_id}) \cup {last_call'.id}
             /\ last_call'.id \notin FocusIds(attention_history')]_vars

\* a CRITICAL focus was evicted to admit a MINIMAL one
C28_Witness ==
    /\ last_call.op = "add_focus" /\ last_call.evicted
    /\ attention_history # <<>>
    /\ attention_history[Len(attention_history)].priority = "critical"
    /\ current_focuses # <<>>
    /\ current_focuses[Len(current_focuses)].focus_id = last_call.id
    /\ current_focuses[Len(current_focuses)].priority = "minimal"

\* what each focus the pool held before _rebalance_attention lost in the add_focus step
ReductionOf(i) ==
    RSub(PoolBeforeRebalance.focuses[i].weight, current_focuses'[i].weight)

FocusesConserved ==
    /\ FocusIds(current_focuses) \cap FocusIds(attention_history) = {}
    /\ FocusIds(current_focuses) \cup FocusIds(attention_history) = 1..(next_id - 1)
    /\ Cardinality(FocusIds(current_focuses)) = Len(current_focuses)
    /\ Cardinality(FocusIds(attention_history)) = Len(attention_history)

\* C27: through allocate_attention, remove_focus, cleanup_expired_focuses and
\* process, every focus ever inserted is in exactly one of current_focuses and
\* attention_history, and attention_history only grows at its end.
C27_FocusesConserved ==
    [][/\ FocusesConserved'
       /\ Len(attention_history) <= Len(attention_history')
       /\ SubSeq(attention_history', 1, Len(attention_history)) = attention_history]_vars

\* process has allocated, focuses have left the pool by eviction, expiry or
\* remove_focus, and others are still held
C27_Witness ==
    /\ calls >= 1 /\ next_id > 3
    /\ last_call.op = "remove_focus" /\ last_call.result
    /\ Len(attention_history) >= 2
    /\ current_focuses # <<>>

\* a step of process taken while current_strategy names no registered strategy
ProcessUnregistered ==
    /\ last_call'.op = "process" /\ calls' = calls + 1
    /\ current_strategy \notin RegisteredStrategies

\* C29: process() called while current_strategy is not a registered strategy
\* returns False, allocates no focus and does not write attention_context
\* into working memory.
C29_UnregisteredStrategyFails ==
    [][ProcessUnregistered =>
         /\ last_call'.result = FALSE
         /\ last_call'.returned = 0 /\ next_id' = next_id
         /\ FocusIds(current_focuses') \subseteq FocusIds(current_focuses)
         /\ working_memory' = working_memory]_vars

\* process has just returned False under the unregistered strategy, on a pool
\* that holds a focus and with an input in working memory
C29_Witness ==
    /\ last_call.op = "process" /\ ~last_call.result
    /\ current_strategy \notin RegisteredStrategies
    /\ current_focuses # <<>>
    /\ working_memory.structured_input # <<>>

\* ---- the emotional engine
\* C21: an EmotionalMemory, once created by the EmotionalEngine, is never
\* removed from emotional_memories by any later operation, however many
\* memories are created afterwards.
C21_MemoriesNeverRemoved ==
    [][\A i \in 1..Len(emotional_memories) :
          \E j \in 1..Len(emotional_memories') :
              emotional_memories'[j] = emotional_memories[i]]_vars

\* the match the claim describes: 0.8 when a trigger pattern occurs in the
\* context, 0.4 when a pattern and the context share a token, the largest over
\* the patterns
ClaimedMatch(memory, context) ==
    LET tokens(text) == {split(lower(text))[k] : k \in 1..Len(split(lower(text)))}
        patterns == {memory.trigger_patterns[k] : k \in 1..Len(memory.trigger_patterns)}
    IN  IF \E p \in patterns : Contains(lower(context), lower(p)) THEN <<4, 5>>
        ELSE IF \E p \in patterns : tokens(p) \cap tokens(context) # {} THEN <<2, 5>>
        ELSE Zero

\* the contexts is_relevant is asked about
Contexts == {si.raw_text : si \in EmotionalInputs}

\* C22: is_relevant(context) returns m times the memory's current decayed
\* strength, where m is the largest over the trigger patterns of 0.8 for a
\* substring match, 0.4 for a shared token and 0 otherwise.
C22_RelevanceUsesDecayedStrength ==
    \A i \in 1..Len(emotional_memories) : \A context \in Contexts :
        REq(is_relevant(emotional_memories[i], context),
            RMul(ClaimedMatch(emotional_memories[i], context),
                 get_current_strength(emotional_memories[i])))

\* C25: after any sequence of process_emotional_input and update_emotional_state
\* calls, with the pattern analysis as the source of new states and any blend
\* weight in [0,1], current_emotional_state has valence in [-1,1], arousal in
\* [0,1] and dominance in [0,1].
C25_PadWithinRanges ==
    /\ RLeq(<<-1, 1>>, current_emotional_state.valence)
    /\ RLeq(current_emotional_state.valence, One)
    /\ RLeq(Zero, current_emotional_state.arousal)
    /\ RLeq(current_emotional_state.arousal, One)
    /\ RLeq(Zero, current_emotional_state.dominance)
    /\ RLeq(current_emotional_state.dominance, One)

\* C26: after every introspection phase the cognitive state's confidence_score
\* lies in [0,1], whatever distances the memory search returned and whatever
\* input confidence in [0,1] perception gave
C26_ConfidenceScoreInUnitRange ==
    /\ RLeq(Zero, working_memory.cognitive_state.confidence_score)
    /\ RLeq(working_memory.cognitive_state.confidence_score, One)


\* the session the stream was polling is gone: ended, or replaced by a new one
SessionEndedDuringSleep ==
    \/ current_session = <<>>
    \/ current_session[1].id # stream_session

\* C30: when the session was ended (by end_session or by a new start_session)
\* while the stream_thoughts consumer was in its polling sleep, the stream
\* finishes without raising when it resumes
C30_StreamFinishesAfterSessionEnd ==
    [][(stream_pc = "sleeping" /\ SessionEndedDuringSleep /\ stream_pc' # stream_pc)
        => stream_pc' = "finished"]_vars

====
